---- MODULE Spec2Model ----
(***************************************************************************)
(* A model of nxalyzer (src/src/lib.rs): the comment stripper, the import  *)
(* path resolver, the identity function and the entity-graph builder of    *)
(* scan_and_parse_files.                                                   *)
(*                                                                         *)
(* Text is modelled by TLA+ strings: Rust's String/&str/Path values are    *)
(* strings here, Option<String> is a sequence of at most one string        *)
(* (<<>> is None, <<s>> is Some(s)), and a HashMap is a function whose     *)
(* domain is its key set.                                                  *)
(***************************************************************************)
EXTENDS Integers, Sequences, FiniteSets, TLC

VARIABLES
    \* ---- the file system and the scan (scan_and_parse_files) ----
    root_path,      \* the root_path argument
    disk,           \* canonical absolute paths of the regular files on disk
    sources,        \* disk path -> what the file's text holds (see FileSource)
    all_files,      \* the Vec all_files, in enumeration order
    parsed,         \* history: each file parsed so far -> what line 117 returned
    entities_map,   \* the HashMap<String, Entity> being built
    pc,             \* position of the scan
    fi,             \* index into all_files of the file being processed
    k,              \* index into the current file's imports / entities
    result,         \* the FileParseResult of the file being processed
    \* ---- one call of a pure function (the specifications other than Spec) ----
    op,             \* the function applied ("scan" during a scan)
    args,           \* its arguments
    ret             \* <<>> before the call, <<value>> after it

scanVars == <<root_path, disk, sources, all_files, parsed, entities_map, pc, fi, k, result>>

callVars == <<op, args, ret>>

vars == <<scanVars, callVars>>

(***************************************************************************)
(* String helpers (std::str).                                              *)
(***************************************************************************)
Char(s, i) == SubSeq(s, i, i)

starts_with(s, p) == Len(s) >= Len(p) /\ SubSeq(s, 1, Len(p)) = p

ends_with(s, p) == Len(s) >= Len(p) /\ SubSeq(s, Len(s) - Len(p) + 1, Len(s)) = p

\* The text after the first n characters (&s[n..]).
StrFrom(s, n) == SubSeq(s, n + 1, Len(s))

\* Index of the last '/' of s, 0 when there is none.
RECURSIVE LastSlashFrom(_, _)
LastSlashFrom(s, i) ==
    IF i = 0 THEN 0
    ELSE IF Char(s, i) = "/" THEN i ELSE LastSlashFrom(s, i - 1)

LastSlash(s) == LastSlashFrom(s, Len(s))

\* Index of the last '.' of s, 0 when there is none.
RECURSIVE LastDotFrom(_, _)
LastDotFrom(s, i) ==
    IF i = 0 THEN 0
    ELSE IF Char(s, i) = "." THEN i ELSE LastDotFrom(s, i - 1)

\* The components of a path: the pieces between '/' characters, in order
\* (empty pieces, from a leading or a doubled '/', included).
RECURSIVE SplitFrom(_, _, _)
SplitFrom(s, i, cur) ==
    IF i > Len(s) THEN <<cur>>
    ELSE IF Char(s, i) = "/" THEN <<cur>> \o SplitFrom(s, i + 1, "")
    ELSE SplitFrom(s, i + 1, cur \o Char(s, i))

Split(s) == SplitFrom(s, 1, "")

RECURSIVE JoinAbs(_)
JoinAbs(comps) ==
    IF comps = <<>> THEN ""
    ELSE "/" \o Head(comps) \o JoinAbs(Tail(comps))

\* The absolute path string of a component list ("/" for the root).
AbsPath(comps) == IF comps = <<>> THEN "/" ELSE JoinAbs(comps)

(***************************************************************************)
(* std::path: Path::join, Path::parent, Path::file_name, Path::extension,  *)
(* for the paths the program builds (no trailing '/', no drive prefix).    *)
(***************************************************************************)
\* Path::join(base, rel): an absolute rel replaces base; otherwise rel is
\* appended after a '/' separator (none after an empty base or a final '/').
join(base, rel) ==
    IF starts_with(rel, "/") THEN rel
    ELSE IF base = "" THEN rel
    ELSE IF ends_with(base, "/") THEN base \o rel
    ELSE base \o "/" \o rel

\* Path::parent: None for "" and "/", else the path without its last component.
parent(p) ==
    IF p = "" \/ p = "/" THEN <<>>
    ELSE LET i == LastSlash(p) IN
         IF i = 0 THEN <<"">>
         ELSE IF i = 1 THEN <<"/">>
         ELSE <<SubSeq(p, 1, i - 1)>>

file_name(p) == StrFrom(p, LastSlash(p))

\* Path::extension: the text after the last '.' of the file name, None when
\* the name has no '.' or only a leading one.
extension(p) ==
    LET n == file_name(p)
        d == LastDotFrom(n, Len(n))
    IN  IF d <= 1 THEN <<>> ELSE <<StrFrom(n, d)>>

(***************************************************************************)
(* The file system: `disk` holds the canonical absolute path of every      *)
(* regular file; a directory exists when a file lies below it.  Relative   *)
(* paths are taken from the working directory Cwd.  No symbolic links.     *)
(***************************************************************************)
Cwd == "/r"

\* Component lists are compared, so that "/r/libs" is a directory when
\* "/r/libs/a.ts" is a file.
NonEmpty(comps) == SelectSeq(comps, LAMBDA c : c /= "")

IsFileC(comps) == AbsPath(comps) \in disk

IsDirC(comps) ==
    \/ comps = <<>>
    \/ \E f \in disk :
          LET fc == NonEmpty(Split(f)) IN
          /\ Len(fc) > Len(comps)
          /\ SubSeq(fc, 1, Len(comps)) = comps

\* The walk the operating system makes along a path: cur is the canonical
\* directory reached so far; "." stays, ".." goes up, a name must exist.
\* The result is <<comps>> (the canonical component list) or <<>> (no such
\* file or directory, or a component below a regular file).
RECURSIVE Walk(_, _)
Walk(cur, rest) ==
    IF rest = <<>> THEN <<cur>>
    ELSE IF IsFileC(cur) /\ cur /= <<>> THEN <<>>
    ELSE LET c == Head(rest) IN
         IF c = "" \/ c = "." THEN Walk(cur, Tail(rest))
         ELSE IF c = ".."
              THEN Walk(IF cur = <<>> THEN cur ELSE SubSeq(cur, 1, Len(cur) - 1),
                        Tail(rest))
         ELSE LET nxt == Append(cur, c) IN
              IF IsFileC(nxt) \/ IsDirC(nxt) THEN Walk(nxt, Tail(rest))
              ELSE <<>>

Resolve(p) ==
    IF p = "" THEN <<>>
    ELSE Walk(IF starts_with(p, "/") THEN <<>> ELSE NonEmpty(Split(Cwd)), Split(p))

\* Path::exists, Path::is_file, Path::is_dir, Path::canonicalize.
exists(p) == Resolve(p) /= <<>>

is_file(p) == Resolve(p) /= <<>> /\ IsFileC(Resolve(p)[1])

is_dir(p) == Resolve(p) /= <<>> /\ ~IsFileC(Resolve(p)[1])

canonicalize(p) == IF Resolve(p) = <<>> THEN <<>> ELSE <<AbsPath(Resolve(p)[1])>>

(***************************************************************************)
(* strip_comments.  A TLA+ string cannot hold a backtick: the character    *)
(* '~', which the program treats like any other ordinary character, stands *)
(* for it in every text of this model.                                     *)
(***************************************************************************)
Backtick == "~"

\* Line 327: the characters that open a string literal.
is_quote(c) == c = "\"" \/ c = "'" \/ c = Backtick

\* Lines 353-358: from position j, the position of the next newline, where
\* the scan goes on (one past the end when there is none).
line_comment_end(s, j) ==
    LET nl == { n \in j..Len(s) : Char(s, n) = "\n" }
    IN  IF nl = {} THEN (IF j > Len(s) THEN j ELSE Len(s) + 1)
        ELSE CHOOSE n \in nl : \A m \in nl : n <= m

\* A block comment that runs through the last "*/" of the text.
block_comment_end_last(s, j) ==
    LET cl == { n \in j..(Len(s) - 1) : Char(s, n) = "*" /\ Char(s, n + 1) = "/" }
    IN  IF cl = {} THEN (IF j > Len(s) THEN j ELSE Len(s) + 1)
        ELSE (CHOOSE n \in cl : \A m \in cl : m <= n) + 2

\* Lines 363-372: from position j, the position after the first "*/" (one
\* past the end when the comment is not closed).
block_comment_end(s, j) ==
    LET cl == { n \in j..(Len(s) - 1) : Char(s, n) = "*" /\ Char(s, n + 1) = "/" }
    IN  IF cl = {} THEN (IF j > Len(s) THEN j ELSE Len(s) + 1)
        ELSE (CHOOSE n \in cl : \A m \in cl : n <= m) + 2

\* The first position from i on where the loop does more than copy the
\* character: a quote or a '/' outside a literal, a backslash or the closing
\* quote inside one (one past the end when there is none).
next_special(s, i, in_string) ==
    LET sp == { n \in i..Len(s) :
                  IF in_string = ""
                  THEN is_quote(Char(s, n)) \/ Char(s, n) = "/"
                  ELSE Char(s, n) = "\\" \/ Char(s, n) = in_string }
    IN  IF sp = {} THEN Len(s) + 1 ELSE CHOOSE n \in sp : \A m \in sp : n <= m

\* The loop without the escape branch: inside a literal a backslash is
\* copied like any other character, so a quote behind it closes the literal.
RECURSIVE strip_from_noescape(_, _, _)
strip_from_noescape(s, i, in_string) ==
    IF i > Len(s) THEN ""
    ELSE LET c == Char(s, i) IN
         IF in_string = "" /\ is_quote(c)
         THEN c \o strip_from_noescape(s, i + 1, c)
         ELSE IF in_string /= ""
         THEN IF c = in_string
              THEN c \o strip_from_noescape(s, i + 1, "")
              ELSE c \o strip_from_noescape(s, i + 1, in_string)
         ELSE IF c = "/" /\ i + 1 <= Len(s) /\ Char(s, i + 1) = "/"
         THEN strip_from_noescape(s, line_comment_end(s, i + 2), "")
         ELSE IF c = "/" /\ i + 1 <= Len(s) /\ Char(s, i + 1) = "*"
         THEN strip_from_noescape(s, block_comment_end(s, i + 2), "")
         ELSE c \o strip_from_noescape(s, i + 1, "")

\* The loop with an escape branch that pushes the peeked character and
\* leaves it in the iterator.
RECURSIVE strip_from_nopeek(_, _, _)
strip_from_nopeek(s, i, in_string) ==
    IF i > Len(s) THEN ""
    ELSE LET c == Char(s, i) IN
         IF in_string = "" /\ is_quote(c)
         THEN c \o strip_from_nopeek(s, i + 1, c)
         ELSE IF in_string /= ""
         THEN IF c = "\\"
              THEN IF i + 1 <= Len(s)
                   THEN c \o Char(s, i + 1) \o strip_from_nopeek(s, i + 1, in_string)
                   ELSE c
              ELSE IF c = in_string
              THEN c \o strip_from_nopeek(s, i + 1, "")
              ELSE c \o strip_from_nopeek(s, i + 1, in_string)
         ELSE IF c = "/" /\ i + 1 <= Len(s) /\ Char(s, i + 1) = "/"
         THEN strip_from_nopeek(s, line_comment_end(s, i + 2), "")
         ELSE IF c = "/" /\ i + 1 <= Len(s) /\ Char(s, i + 1) = "*"
         THEN strip_from_nopeek(s, block_comment_end(s, i + 2), "")
         ELSE c \o strip_from_nopeek(s, i + 1, "")

\* Lines 325-379: the loop from position i; in_string is "" for None, else
\* the quote character of the open literal.  A run of characters that the
\* loop only copies is copied in one step.
RECURSIVE strip_from(_, _, _)
strip_from(s, i, in_string) ==
    IF i > Len(s) THEN ""
    ELSE LET run_end == next_special(s, i, in_string)
             c       == Char(s, i)
         IN
         IF run_end > i
         THEN SubSeq(s, i, run_end - 1) \o strip_from(s, run_end, in_string)
         ELSE IF in_string = "" /\ is_quote(c)
         THEN c \o strip_from(s, i + 1, c)
         ELSE IF in_string /= ""
         THEN IF c = "\\"
              THEN IF i + 1 <= Len(s)
                   THEN c \o Char(s, i + 1) \o strip_from(s, i + 2, in_string)
                   ELSE c
              ELSE IF c = in_string
              THEN c \o strip_from(s, i + 1, "")
              ELSE c \o strip_from(s, i + 1, in_string)
         ELSE IF c = "/" /\ i + 1 <= Len(s) /\ Char(s, i + 1) = "/"
         THEN strip_from(s, line_comment_end(s, i + 2), "")
         ELSE IF c = "/" /\ i + 1 <= Len(s) /\ Char(s, i + 1) = "*"
         THEN strip_from(s, block_comment_end(s, i + 2), "")
         ELSE c \o strip_from(s, i + 1, "")

\* A stripper that strips nothing.
strip_comments_none(content) == content

strip_comments(content) == strip_from(content, 1, "")

(***************************************************************************)
(* Identity (generate_entity_id).  The key string "{file_path}:{name}" is  *)
(* hashed by DefaultHasher and printed as 16 hex digits; the 64-bit hash   *)
(* and its formatting are taken to be injective on the key, so an identity *)
(* is modelled by the key string that is fed to the hasher.                *)
(***************************************************************************)
generate_entity_id(file_path, name) == file_path \o ":" \o name

\* ImportInfo::new
ImportInfo_new(name, path) ==
    [id |-> generate_entity_id(path, name), name |-> name, path |-> path]

\* enum EntityType
EntityType == {"Unknown", "Class", "Enum", "Type", "Interface", "Function", "Const"}

\* Entity::new
Entity_new(name, entity_type, file_path, deps) ==
    [id |-> generate_entity_id(file_path, name), name |-> name,
     entity_type |-> entity_type, file_path |-> file_path, deps |-> deps,
     used |-> FALSE]

(***************************************************************************)
(* resolve_import_path                                                     *)
(***************************************************************************)
\* A base path that takes a bare package name as a relative specifier.
base_path_of_any(importing_file, import_source, root) ==
    IF starts_with(import_source, "@awork/")
    THEN <<join(join(root, "libs/shared/src/lib"), StrFrom(import_source, 7))>>
    ELSE IF parent(importing_file) = <<>> THEN <<>>
         ELSE <<join(parent(importing_file)[1], import_source)>>

\* Lines 408-419: the joined base path, None for an external package (or
\* when the importing file has no parent).
base_path_of(importing_file, import_source, root) ==
    IF starts_with(import_source, "@awork/")
    THEN <<join(join(root, "libs/shared/src/lib"), StrFrom(import_source, 7))>>
    ELSE IF starts_with(import_source, "./") \/ starts_with(import_source, "../")
    THEN IF parent(importing_file) = <<>> THEN <<>>
         ELSE <<join(parent(importing_file)[1], import_source)>>
    ELSE <<>>

\* The candidates with the .tsx file tried before the .ts file.
candidates_tsx_first(base_path) ==
    << base_path \o ".tsx", base_path \o ".ts",
       join(base_path, "index.ts"), join(base_path, "index.tsx") >>

\* Lines 422-432: the candidates tried, in order.
candidates(base_path) ==
    << base_path \o ".ts", base_path \o ".tsx",
       join(base_path, "index.ts"), join(base_path, "index.tsx") >>

\* Lines 455-460: the path returned when nothing exists on disk.
fallback_path(base_path) ==
    IF ends_with(base_path, ".ts") \/ ends_with(base_path, ".tsx")
    THEN base_path
    ELSE base_path \o ".ts"

\* Lines 424-441: the index of the first candidate that exists, 0 for none.
RECURSIVE first_existing(_, _)
first_existing(cs, i) ==
    IF i > Len(cs) THEN 0
    ELSE IF exists(cs[i]) THEN i
    ELSE first_existing(cs, i + 1)

\* Lines 424-460, for a base path.
resolve_base(base_path) ==
    LET n == first_existing(candidates(base_path), 1) IN
    IF n /= 0
    THEN canonicalize(candidates(base_path)[n])
    ELSE IF exists(base_path) /\ is_file(base_path)
    THEN canonicalize(base_path)
    ELSE <<fallback_path(base_path)>>

resolve_import_path(importing_file, import_source, root) ==
    LET b == base_path_of(importing_file, import_source, root) IN
    IF b = <<>> THEN <<>> ELSE resolve_base(b[1])

(***************************************************************************)
(* File enumeration (list_typescript_files and the two skip rules).       *)
(***************************************************************************)
should_skip_directory(dir_name) ==
    dir_name \in {"mocks", "__mocks__", "mocks_stubs", "tests", "environments", "i18n"}

should_skip_file(path) ==
    LET n == file_name(path) IN
    \/ ends_with(n, ".spec.ts") \/ ends_with(n, ".d.ts") \/ ends_with(n, ".stories.ts")
    \/ ends_with(n, "-stub.ts") \/ ends_with(n, "mocks.ts") \/ ends_with(n, "mock.ts")

RECURSIVE JoinRel(_, _)
JoinRel(base, comps) ==
    IF comps = <<>> THEN base ELSE JoinRel(join(base, Head(comps)), Tail(comps))

\* The paths list_typescript_files(dir) returns, as a set: every regular
\* file below dir that no skipped directory hides, that is not itself
\* skipped and whose extension is ts or tsx.  Each path is dir joined with
\* the entry names met on the way down (fs::read_dir's entry.path()).
list_typescript_files(dir) ==
    IF ~is_dir(dir) THEN {}
    ELSE LET dc == Resolve(dir)[1] IN
         { JoinRel(dir, SubSeq(NonEmpty(Split(f)), Len(dc) + 1, Len(NonEmpty(Split(f))))) :
             f \in { g \in disk :
                       LET gc == NonEmpty(Split(g)) IN
                       /\ Len(gc) > Len(dc)
                       /\ SubSeq(gc, 1, Len(dc)) = dc
                       /\ \A i \in (Len(dc) + 1)..(Len(gc) - 1) : ~should_skip_directory(gc[i])
                       /\ ~should_skip_file(g)
                       /\ extension(g) \in {<<"ts">>, <<"tsx">>} } }

\* fs::read_dir yields the entries of a directory in no specified order:
\* every enumeration of the listed set is a possible Vec.
Orderings(S) ==
    { o \in [1..Cardinality(S) -> S] : \A i, j \in 1..Cardinality(S) : o[i] = o[j] => i = j }

\* Line 79.
subdirs == <<"apps/web", "apps/mobile", "libs">>

\* Lines 83-105: the lists of the existing subdirectories, appended in order.
AllFileLists(root) ==
    LET L(i) == IF exists(join(root, subdirs[i]))
                THEN Orderings(list_typescript_files(join(root, subdirs[i])))
                ELSE {<<>>}
    IN  { a \o b \o c : a \in L(1), b \in L(2), c \in L(3) }

(***************************************************************************)
(* Per-file parsing.  What the text of a file holds is given by a          *)
(* FileSource record:                                                      *)
(*   imports      - the (name, source) pairs matched by the three import   *)
(*                  patterns of extract_imports, in the order it pushes    *)
(*                  them;                                                  *)
(*   decls        - the (name, kind) declarations pushed by the line loop  *)
(*                  of parse_typescript_file, in order;                    *)
(*   used_locally - the names for which is_entity_used_locally holds.      *)
(***************************************************************************)
\* extract_imports, lines 495-549: each match is resolved; an external
\* package gives no edge.
RECURSIVE extract_imports(_, _, _)
extract_imports(matches, file_path, root) ==
    IF matches = <<>> THEN <<>>
    ELSE LET m == Head(matches)
             r == resolve_import_path(file_path, m.source, root)
         IN  (IF r = <<>> THEN <<>> ELSE <<ImportInfo_new(m.name, r[1])>>)
             \o extract_imports(Tail(matches), file_path, root)

\* parse_typescript_file, lines 576-696, on a readable file.
parse_typescript_file(file_path, root) ==
    LET src  == sources[canonicalize(file_path)[1]]
        deps == extract_imports(src.imports, file_path, root)
    IN  [ entities |->
            [ i \in 1..Len(src.decls) |->
                [ Entity_new(src.decls[i].name, src.decls[i].kind, file_path, deps)
                    EXCEPT !.used = src.decls[i].name \in src.used_locally ] ],
          imports |-> deps ]

NoResult == [entities |-> <<>>, imports |-> <<>>]

\* Line 117: Ok(result), or Err when the file cannot be opened or read.
ParseError == [error |-> TRUE]

(***************************************************************************)
(* The entity-graph builder (scan_and_parse_files, lines 112-153).         *)
(***************************************************************************)
Range(f) == { f[i] : i \in DOMAIN f }

Put(m, key, val) == [i \in DOMAIN m \cup {key} |-> IF i = key THEN val ELSE m[i]]

\* A placeholder that is given a declared kind.
register_import_typed(m, import) ==
    IF import.id \in DOMAIN m
    THEN [m EXCEPT ![import.id].used = TRUE]
    ELSE Put(m, import.id,
             [Entity_new(import.name, "Const", import.path, <<>>) EXCEPT !.used = TRUE])

\* A placeholder left with the used flag Entity::new gives it.
register_import_unmarked(m, import) ==
    IF import.id \in DOMAIN m
    THEN [m EXCEPT ![import.id].used = TRUE]
    ELSE Put(m, import.id, Entity_new(import.name, "Unknown", import.path, <<>>))

\* Lines 122-133: one import edge.
register_import(m, import) ==
    IF import.id \in DOMAIN m
    THEN [m EXCEPT ![import.id].used = TRUE]
    ELSE Put(m, import.id,
             [Entity_new(import.name, "Unknown", import.path, <<>>) EXCEPT !.used = TRUE])

\* A plain insert, which replaces the record already in the map.
register_entity_insert(m, entity) == Put(m, entity.id, entity)

\* An update that writes the kind and leaves the dependencies of the record
\* already in the map.
register_entity_kind_only(m, entity) ==
    IF entity.id \in DOMAIN m
    THEN [m EXCEPT ![entity.id].entity_type = entity.entity_type]
    ELSE Put(m, entity.id, entity)

\* Lines 139-144: one declared entity.
register_entity(m, entity) ==
    IF entity.id \in DOMAIN m
    THEN [m EXCEPT ![entity.id].entity_type = entity.entity_type,
                   ![entity.id].deps = entity.deps]
    ELSE Put(m, entity.id, entity)

\* unused(), lines 209-212: the records reported.
unused_entities(m) ==
    { m[i] : i \in { j \in DOMAIN m : ~m[j].used /\ m[j].entity_type /= "Unknown" } }

(***************************************************************************)
(* The inputs of a scan: bounds and universes.                             *)
(***************************************************************************)
MaxFiles == 2       \* files on disk
MaxImports == 2     \* import matches in the whole tree
MaxDecls == 1       \* declarations in the whole tree

\* An absolute canonical root, and the same directory given relative to Cwd.
Roots == {"/r", "."}

DiskUniverse == {"/r/libs/a.ts", "/r/libs/b.ts", "/r/libs/a.ts:b.ts", "/r/libs/u.ts"}

\* Files that fs::File::open / read_to_string fails on.
Unreadable == {"/r/libs/u.ts"}

\* (name, source) pairs as the named-import pattern captures them: the name is
\* any text without '}' and ',', so it may hold a ':'.
ImportMatches ==
    { [name |-> "X", source |-> "./a"],
      [name |-> "b.ts:X", source |-> "./a"] }

Decls == { [name |-> "X", kind |-> t] : t \in {"Class", "Function"} }

SeqsUpTo(S, n) == UNION { [1..m -> S] : m \in 0..n }

\* The sequences of at most n elements of S that name no element twice.
DistinctSeqsUpTo(S, n) ==
    { q \in SeqsUpTo(S, n) : \A x, y \in 1..Len(q) : x /= y => q[x] /= q[y] }

\* The second parts of the pairs of seq whose first part is p, in order.
RECURSIVE ItemsOf(_, _)
ItemsOf(seq, p) ==
    IF seq = <<>> THEN <<>>
    ELSE (IF Head(seq)[1] = p THEN <<Head(seq)[2]>> ELSE <<>>) \o ItemsOf(Tail(seq), p)

Readable(d) == d \ Unreadable

\* The contents of the files of d when the tree holds the import matches ti
\* and the declarations td (each paired with its file) and the files of lu
\* mention their declared name more than once.  No file holds the same
\* import match twice.
FileSources(d, ti, td, lu) ==
    [ p \in d |-> [ imports |-> ItemsOf(ti, p),
                    decls |-> ItemsOf(td, p),
                    used_locally |-> IF p \in lu THEN {"X"} ELSE {} ] ]

(***************************************************************************)
(* scan_and_parse_files as a state machine.  Init is the state at line     *)
(* 107, after the directories were listed.                                 *)
(***************************************************************************)
Init ==
    /\ root_path \in Roots
    /\ disk \in { d \in SUBSET DiskUniverse : Cardinality(d) <= MaxFiles }
    /\ all_files \in AllFileLists(root_path)
    /\ \E ti \in DistinctSeqsUpTo(Readable(disk) \X ImportMatches, MaxImports),
          td \in SeqsUpTo(Readable(disk) \X Decls, MaxDecls) :
          \E lu \in SUBSET { q \in Readable(disk) : \E i \in 1..Len(td) : td[i][1] = q } :
             sources = FileSources(disk, ti, td, lu)
    /\ parsed = <<>>
    /\ entities_map = <<>>
    /\ pc = "start"
    /\ fi = 1
    /\ k = 1
    /\ result = NoResult
    /\ op = "scan" /\ args = <<>> /\ ret = <<>>

inputVars == <<root_path, disk, sources, all_files>>

\* Lines 107-110: no file found, the scan returns None.
ReturnNone ==
    /\ pc = "start" /\ all_files = <<>>
    /\ pc' = "none"
    /\ UNCHANGED <<callVars, inputVars, parsed, entities_map, fi, k, result>>

\* Lines 112-114.
EnterLoop ==
    /\ pc = "start" /\ all_files /= <<>>
    /\ pc' = "file"
    /\ UNCHANGED <<callVars, inputVars, parsed, entities_map, fi, k, result>>

\* Lines 117-118: the next file parses.
ParseOk ==
    /\ pc = "file" /\ fi <= Len(all_files)
    /\ canonicalize(all_files[fi])[1] \notin Unreadable
    /\ result' = parse_typescript_file(all_files[fi], root_path)
    /\ parsed' = Put(parsed, all_files[fi], result')
    /\ pc' = "imports" /\ k' = 1
    /\ UNCHANGED <<callVars, inputVars, entities_map, fi>>

\* A failing file that ends the scan with the map built so far.
ParseErr_abort ==
    /\ pc = "file" /\ fi <= Len(all_files)
    /\ canonicalize(all_files[fi])[1] \in Unreadable
    /\ parsed' = Put(parsed, all_files[fi], ParseError)
    /\ pc' = "done"
    /\ UNCHANGED <<callVars, inputVars, entities_map, fi, k, result>>

\* Lines 147-149: the next file fails to parse; it is logged and skipped.
ParseErr ==
    /\ pc = "file" /\ fi <= Len(all_files)
    /\ canonicalize(all_files[fi])[1] \in Unreadable
    /\ parsed' = Put(parsed, all_files[fi], ParseError)
    /\ fi' = fi + 1
    /\ UNCHANGED <<callVars, inputVars, entities_map, pc, k, result>>

\* Lines 121-134, one iteration.
RegisterImport ==
    /\ pc = "imports" /\ k <= Len(result.imports)
    /\ entities_map' = register_import(entities_map, result.imports[k])
    /\ k' = k + 1
    /\ UNCHANGED <<callVars, inputVars, parsed, pc, fi, result>>

ImportsDone ==
    /\ pc = "imports" /\ k > Len(result.imports)
    /\ pc' = "entities" /\ k' = 1
    /\ UNCHANGED <<callVars, inputVars, parsed, entities_map, fi, result>>

\* Lines 137-145, one iteration.
RegisterEntity ==
    /\ pc = "entities" /\ k <= Len(result.entities)
    /\ entities_map' = register_entity(entities_map, result.entities[k])
    /\ k' = k + 1
    /\ UNCHANGED <<callVars, inputVars, parsed, pc, fi, result>>

FileDone ==
    /\ pc = "entities" /\ k > Len(result.entities)
    /\ pc' = "file" /\ fi' = fi + 1 /\ k' = 1 /\ result' = NoResult
    /\ UNCHANGED <<callVars, inputVars, parsed, entities_map>>

\* Line 153: Some(entities_map).
ReturnSome ==
    /\ pc = "file" /\ fi > Len(all_files)
    /\ pc' = "done"
    /\ UNCHANGED <<callVars, inputVars, parsed, entities_map, fi, k, result>>

Next ==
    \/ ReturnNone \/ EnterLoop \/ ParseOk \/ ParseErr \/ RegisterImport
    \/ ImportsDone \/ RegisterEntity \/ FileDone \/ ReturnSome

Spec == Init /\ [][Next]_vars

(***************************************************************************)
(* Definitions used to state the properties of the scan.                   *)
(***************************************************************************)
\* The file has been parsed, successfully.
IsReadable(file) == file \in DOMAIN parsed /\ parsed[file] /= ParseError

\* The parse result of a listed file; NoResult for a file that failed to
\* parse or that the scan has not reached.
ParseOf(file) == IF IsReadable(file) THEN parsed[file] ELSE NoResult

RECURSIVE FoldImports(_, _)
FoldImports(m, imports) ==
    IF imports = <<>> THEN m
    ELSE FoldImports(register_import(m, Head(imports)), Tail(imports))

RECURSIVE FoldEntities(_, _)
FoldEntities(m, entities) ==
    IF entities = <<>> THEN m
    ELSE FoldEntities(register_entity(m, Head(entities)), Tail(entities))

\* The map the loop of lines 116-151 builds from m over the files of order.
RECURSIVE ScanAll(_, _)
ScanAll(m, order) ==
    IF order = <<>> THEN m
    ELSE ScanAll(FoldEntities(FoldImports(m, ParseOf(Head(order)).imports),
                              ParseOf(Head(order)).entities),
                 Tail(order))

\* The identities declared by the files parsed so far.
DeclaredIds ==
    UNION { { e.id : e \in Range(ParseOf(all_files[i]).entities) } : i \in 1..Len(all_files) }

\* The kind of the last declaration of name in a parse result.
LastKind(entities, name) ==
    LET hits == { i \in 1..Len(entities) : entities[i].name = name } IN
    entities[CHOOSE i \in hits : \A j \in hits : j <= i].entity_type

(***************************************************************************)
(* C1. Monotonic usage: in every step of the scan, a record whose used     *)
(* flag is true is still in the map with used = true after the step.       *)
(***************************************************************************)
C1_MonotonicUsed ==
    [][ \A id \in DOMAIN entities_map :
          entities_map[id].used =>
             /\ id \in DOMAIN entities_map'
             /\ entities_map'[id].used ]_vars

\* A used placeholder was later overwritten by its declaration.
C1_Witness ==
    /\ pc = "entities" /\ k > 1
    /\ result.entities[k - 1].id \in DOMAIN entities_map
    /\ ~result.entities[k - 1].used
    /\ entities_map[result.entities[k - 1].id].used
    /\ entities_map[result.entities[k - 1].id].entity_type /= "Unknown"

(***************************************************************************)
(* C2. Placeholder promotion: when file A is processed before file B, A    *)
(* has an import edge for a name X whose path is B's path, and B declares  *)
(* X, the final record of X's identity has the kind B declares (not        *)
(* Unknown), B's import list as dependencies, and used = true.             *)
(***************************************************************************)
PromotionCase(i, j, e) ==
    /\ i < j
    /\ IsReadable(all_files[i]) /\ IsReadable(all_files[j])
    /\ e \in Range(ParseOf(all_files[i]).imports)
    /\ e.path = all_files[j]
    /\ \E d \in Range(ParseOf(all_files[j]).entities) : d.name = e.name

C2_PlaceholderPromotion ==
    pc = "done" =>
      \A i, j \in 1..Len(all_files) :
        \A e \in Range(ParseOf(all_files[i]).imports) :
          PromotionCase(i, j, e) =>
            /\ e.id \in DOMAIN entities_map
            /\ entities_map[e.id].entity_type /= "Unknown"
            /\ entities_map[e.id].entity_type
                 = LastKind(ParseOf(all_files[j]).entities, e.name)
            /\ entities_map[e.id].deps = ParseOf(all_files[j]).imports
            /\ entities_map[e.id].used

\* The scan ended; a placeholder was promoted by a file that has imports
\* of its own and that does not use the name locally.
C2_Witness ==
    /\ pc = "done"
    /\ \E i, j \in 1..Len(all_files) :
         \E e \in Range(ParseOf(all_files[i]).imports) :
           /\ PromotionCase(i, j, e)
           /\ ParseOf(all_files[j]).imports /= <<>>
           /\ \A d \in Range(ParseOf(all_files[j]).entities) : ~d.used

(***************************************************************************)
(* C3. Order independence: when each identity is declared by at most one   *)
(* file, the map returned by the scan is the map every other enumeration   *)
(* order of the same files yields (same identities, and for each the same  *)
(* name, kind, defining file, dependencies and used flag).                 *)
(***************************************************************************)
DeclaredOnce ==
    \A i, j \in 1..Len(all_files) :
       i /= j =>
         { e.id : e \in Range(ParseOf(all_files[i]).entities) }
           \cap { e.id : e \in Range(ParseOf(all_files[j]).entities) } = {}

C3_OrderIndependent ==
    (pc = "done" /\ DeclaredOnce) =>
       \A o \in Orderings(Range(all_files)) : ScanAll(<<>>, o) = entities_map

\* The final maps of all orders agree on the identities, and on the kind,
\* the dependencies and the used flag of each.
C3_SameUsage ==
    (pc = "done" /\ DeclaredOnce) =>
       \A o \in Orderings(Range(all_files)) :
          LET m == ScanAll(<<>>, o) IN
          /\ DOMAIN m = DOMAIN entities_map
          /\ \A id \in DOMAIN m :
                /\ m[id].entity_type = entities_map[id].entity_type
                /\ m[id].deps = entities_map[id].deps
                /\ m[id].used = entities_map[id].used

(***************************************************************************)
(* C4. Cross-file usage: when scanned file a declares N and another        *)
(* scanned file b has a named import of N whose relative specifier denotes *)
(* a, then after the scan the record of N in a has used = true and is not  *)
(* in the unused report.                                                   *)
(***************************************************************************)
\* The components of a path with "." dropped and ".." applied, lexically.
RECURSIVE LexNorm(_, _)
LexNorm(acc, rest) ==
    IF rest = <<>> THEN acc
    ELSE LET c == Head(rest) IN
         IF c = "" \/ c = "." THEN LexNorm(acc, Tail(rest))
         ELSE IF c = ".."
              THEN LexNorm(IF acc = <<>> THEN acc ELSE SubSeq(acc, 1, Len(acc) - 1),
                           Tail(rest))
         ELSE LexNorm(Append(acc, c), Tail(rest))

\* The relative specifier source, written in the file at disk path importer,
\* denotes the file at disk path target: target is <dir of importer>/<source>
\* with or without the extension .ts or .tsx.
Denotes(importer, source, target) ==
    /\ starts_with(source, "./") \/ starts_with(source, "../")
    /\ LET dir == SubSeq(NonEmpty(Split(importer)), 1, Len(NonEmpty(Split(importer))) - 1)
           t   == AbsPath(LexNorm(dir, Split(source)))
       IN  target \in {t, t \o ".ts", t \o ".tsx"}

CrossFileCase(a, b, n) ==
    /\ a /= b
    /\ IsReadable(a) /\ IsReadable(b)
    /\ \E d \in Range(sources[canonicalize(a)[1]].decls) : d.name = n
    /\ \E m \in Range(sources[canonicalize(b)[1]].imports) :
          m.name = n /\ Denotes(canonicalize(b)[1], m.source, canonicalize(a)[1])

C4_ImportMarksUsed ==
    pc = "done" =>
      \A a, b \in Range(all_files) :
        \A n \in {"X"} :
          CrossFileCase(a, b, n) =>
            /\ generate_entity_id(a, n) \in DOMAIN entities_map
            /\ entities_map[generate_entity_id(a, n)].used
            /\ entities_map[generate_entity_id(a, n)] \notin unused_entities(entities_map)

(***************************************************************************)
(* C5. A record that no scanned file declares (it entered the map through  *)
(* import edges only) has kind Unknown in every state of the scan and is   *)
(* never in the unused report; the report holds exactly the records whose  *)
(* kind is not Unknown and whose used flag is false.                       *)
(***************************************************************************)
C5_PlaceholderStaysUnknown ==
    /\ \A id \in DOMAIN entities_map :
          id \notin DeclaredIds =>
             /\ entities_map[id].entity_type = "Unknown"
             /\ entities_map[id] \notin unused_entities(entities_map)
    /\ \A r \in Range(entities_map) :
          r \in unused_entities(entities_map) <=> (r.entity_type /= "Unknown" /\ r.used = FALSE)

\* The scan ended with a placeholder in the map, made by an earlier file
\* than the last one.
C5_Witness ==
    /\ pc = "done" /\ Len(all_files) > 1
    /\ \E e \in Range(ParseOf(all_files[1]).imports) :
          /\ e.id \notin DeclaredIds
          /\ e.id \in DOMAIN entities_map
    /\ unused_entities(entities_map) /= {}

(***************************************************************************)
(* C23. In every state reached during or after a scan, every record of     *)
(* kind Unknown in the entity map has used = true and an empty dependency  *)
(* list.                                                                   *)
(***************************************************************************)
C23_PlaceholderShape ==
    \A id \in DOMAIN entities_map :
        entities_map[id].entity_type = "Unknown" =>
            /\ entities_map[id].used = TRUE
            /\ entities_map[id].deps = <<>>

\* The map holds a placeholder next to a declared record that carries the
\* import edges of its file.
C23_Witness ==
    /\ \E id \in DOMAIN entities_map : entities_map[id].entity_type = "Unknown"
    /\ \E id \in DOMAIN entities_map :
          /\ entities_map[id].entity_type /= "Unknown"
          /\ entities_map[id].deps /= <<>>

(***************************************************************************)
(* Calls of the pure text functions.  One call is one behaviour: Init      *)
(* draws the arguments, the action applies the function and stores what it *)
(* returned.  The scan's variables rest at their idle values.              *)
(***************************************************************************)
ScanIdle ==
    /\ root_path = "" /\ disk = {} /\ sources = <<>> /\ all_files = <<>>
    /\ parsed = <<>> /\ entities_map = <<>>
    /\ pc = "idle" /\ fi = 1 /\ k = 1 /\ result = NoResult

\* Longest text of arbitrary characters handed to strip_comments.
MaxText == 4

\* Most pieces of a text made of the pieces below.
MaxTokens == 5

\* The characters strip_comments tells apart, and one ordinary character.
TextAlphabet == {"a", "/", "*", "\n", "\"", "'", "\\", Backtick}

RECURSIVE TextsOfLen(_)
TextsOfLen(n) ==
    IF n = 0 THEN {""}
    ELSE { t \o c : t \in TextsOfLen(n - 1), c \in TextAlphabet }

\* The pieces of the longer texts: an ordinary character, a newline, a
\* double quote, an escaped double quote, the two comment openers and the
\* block closer.
TextTokens == {"a", "\n", "\"", "\\\"", "//", "/*", "*/"}

RECURSIVE TokenTextsOfLen(_)
TokenTextsOfLen(n) ==
    IF n = 0 THEN {""}
    ELSE { t \o c : t \in TokenTextsOfLen(n - 1), c \in TextTokens }

\* Every text of at most chars characters, and every text of at most
\* tokens pieces.
Texts(chars, tokens) ==
    UNION { TextsOfLen(n) : n \in 0..chars }
    \cup UNION { TokenTextsOfLen(n) : n \in 0..tokens }

StripInit ==
    /\ ScanIdle
    /\ op = "strip_comments" /\ args \in Texts(MaxText, MaxTokens) /\ ret = <<>>

CallStrip ==
    /\ op = "strip_comments" /\ ret = <<>>
    /\ ret' = <<strip_comments(args)>>
    /\ UNCHANGED <<scanVars, op, args>>

StripNext == CallStrip

StripSpec == StripInit /\ [][StripNext]_vars

(***************************************************************************)
(* The regions of a text, read off the text itself.                        *)
(***************************************************************************)
MinOf(S) == CHOOSE n \in S : \A m \in S : n <= m

\* Position j lies right after an odd number of backslashes of the literal
\* opened at i.
Escaped(s, i, j) ==
    LET runs == { n \in 0..(j - i - 1) :
                     \A m \in (j - n)..(j - 1) : Char(s, m) = "\\" }
        run  == CHOOSE n \in runs : \A m \in runs : m <= n
    IN run % 2 = 1

\* The closing quote of the literal opened at i, 0 when it has none.
CloseOf(s, i) ==
    LET C == { j \in (i + 1)..Len(s) : Char(s, j) = Char(s, i) /\ ~Escaped(s, i, j) }
    IN IF C = {} THEN 0 ELSE MinOf(C)

\* The last position of the region that opens at i, for a position i
\* outside every region: a string literal runs to its closing quote, a
\* line comment to the character before the next newline, a block comment
\* through the first "*/" after its opener; each runs to the end of the
\* text when it is not closed.  "" marks a position that opens nothing.
RegionKind(s, i) ==
    IF Char(s, i) \in {"\"", "'", Backtick} THEN "string"
    ELSE IF i < Len(s) /\ SubSeq(s, i, i + 1) = "//" THEN "line"
    ELSE IF i < Len(s) /\ SubSeq(s, i, i + 1) = "/*" THEN "block"
    ELSE ""

RegionEnd(s, i) ==
    LET kind == RegionKind(s, i)
        nl   == { n \in (i + 2)..Len(s) : Char(s, n) = "\n" }
        cl   == { n \in (i + 2)..(Len(s) - 1) : SubSeq(s, n, n + 1) = "*/" }
    IN IF kind = "string" THEN (IF CloseOf(s, i) = 0 THEN Len(s) ELSE CloseOf(s, i))
       ELSE IF kind = "line" THEN (IF nl = {} THEN Len(s) ELSE MinOf(nl) - 1)
       ELSE IF kind = "block" THEN (IF cl = {} THEN Len(s) ELSE MinOf(cl) + 1)
       ELSE i

\* The regions <<kind, first, last>> from position i on.
RECURSIVE Regions(_, _)
Regions(s, i) ==
    IF i > Len(s) THEN {}
    ELSE IF RegionKind(s, i) = "" THEN Regions(s, i + 1)
    ELSE { <<RegionKind(s, i), i, RegionEnd(s, i)>> } \cup Regions(s, RegionEnd(s, i) + 1)

\* The positions outside every comment region.
KeptPositions(s) ==
    { n \in 1..Len(s) :
        \A r \in Regions(s, 1) : r[1] = "string" \/ n < r[2] \/ n > r[3] }

RECURSIVE TextAt(_, _, _)
TextAt(s, P, i) ==
    IF i > Len(s) THEN ""
    ELSE (IF i \in P THEN Char(s, i) ELSE "") \o TextAt(s, P, i + 1)

(***************************************************************************)
(* C9. Every string literal of the input (single, double or template       *)
(* quote; opened outside a comment; closed by the same quote character     *)
(* not preceded by an odd run of backslashes) stands unchanged in the      *)
(* output, at the place the characters kept before it leave for it, even   *)
(* when it holds comment openers or escaped quotes.                        *)
(***************************************************************************)
C9_StringsPreserved ==
    ret /= <<>> =>
       \A r \in Regions(args, 1) :
          (r[1] = "string" /\ CloseOf(args, r[2]) /= 0) =>
             LET off == Cardinality({ n \in KeptPositions(args) : n < r[2] })
             IN /\ Len(ret[1]) >= off + (r[3] - r[2] + 1)
                /\ SubSeq(ret[1], off + 1, off + (r[3] - r[2] + 1)) = SubSeq(args, r[2], r[3])

\* A call returned for a text with a closed string literal that holds an
\* escaped quote of its own kind and, behind it, a comment opener.
C9_Witness ==
    /\ ret /= <<>>
    /\ \E r \in Regions(args, 1) :
          /\ r[1] = "string" /\ CloseOf(args, r[2]) /= 0
          /\ \E j \in (r[2] + 1)..(r[3] - 1) :
                /\ Char(args, j) = Char(args, r[2])
                /\ Escaped(args, r[2], j)
                /\ \E n \in (j + 1)..(r[3] - 2) :
                      SubSeq(args, n, n + 1) \in {"//", "/*"}

(***************************************************************************)
(* C10. The output is the input without its comments: the characters       *)
(* outside every line comment (from "//" to the character before the next  *)
(* newline, the newline kept) and every block comment (from the opener     *)
(* through the first closer, or to the end of the text), in order.         *)
(***************************************************************************)
C10_CommentsRemoved ==
    ret /= <<>> => ret[1] = TextAt(args, KeptPositions(args), 1)

\* A call returned for a text with a line comment followed by a newline
\* and more text, and with a closed block comment followed by an ordinary
\* character.
C10_Witness ==
    /\ ret /= <<>>
    /\ \E r \in Regions(args, 1) :
          r[1] = "line" /\ r[3] + 1 < Len(args)
    /\ \E r \in Regions(args, 1) :
          /\ r[1] = "block" /\ r[3] < Len(args)
          /\ r[3] >= r[2] + 3 /\ SubSeq(args, r[3] - 1, r[3]) = "*/"
          /\ Char(args, r[3] + 1) = "a"
    /\ ret[1] /= args

\* t can be read off s from position i on, left to right, skipping
\* characters of s: each character of t is matched with the first equal
\* character of s not yet passed.
RECURSIVE IsSubsequenceFrom(_, _, _)
IsSubsequenceFrom(t, s, i) ==
    IF t = "" THEN TRUE
    ELSE LET hits == { n \in i..Len(s) : Char(s, n) = Char(t, 1) } IN
         IF hits = {} THEN FALSE
         ELSE IsSubsequenceFrom(StrFrom(t, 1), s, MinOf(hits) + 1)

(***************************************************************************)
(* C21. For every input text the output of strip_comments is no longer     *)
(* than the input and is a subsequence of it: every output character is an *)
(* input character, in input order.                                        *)
(***************************************************************************)
C21_OutputSubsequence ==
    ret /= <<>> =>
        /\ Len(ret[1]) <= Len(args)
        /\ IsSubsequenceFrom(ret[1], args, 1)

\* A call returned for a text with a string literal and a comment, the
\* output shorter than the input and not empty.
C21_Witness ==
    /\ ret /= <<>>
    /\ ret[1] /= "" /\ Len(ret[1]) < Len(args)
    /\ \E r \in Regions(args, 1) : r[1] = "string"
    /\ \E r \in Regions(args, 1) : r[1] \in {"line", "block"}

(***************************************************************************)
(* Calls of generate_entity_id on two (file path, name) pairs.             *)
(***************************************************************************)
IdPaths == {"/r/libs/a.ts", "/r/libs/a.ts:b.ts", "/r/libs/b.ts", "./libs/a.ts"}

IdNames == {"X", "Y", "b.ts:X", "a"}

IdInit ==
    /\ ScanIdle
    /\ op = "generate_entity_id"
    /\ args \in (IdPaths \X IdNames) \X (IdPaths \X IdNames)
    /\ ret = <<>>

\* The first pair is identified twice, then the second pair once.
CallId ==
    /\ op = "generate_entity_id" /\ ret = <<>>
    /\ ret' = << generate_entity_id(args[1][1], args[1][2]),
                 generate_entity_id(args[1][1], args[1][2]),
                 generate_entity_id(args[2][1], args[2][2]) >>
    /\ UNCHANGED <<scanVars, op, args>>

IdNext == CallId

IdSpec == IdInit /\ [][IdNext]_vars

(***************************************************************************)
(* C8. generate_entity_id gives the same identity on a repeated call with  *)
(* the same (file path, name), and two pairs that differ in the file path  *)
(* or in the name get different identities.                                *)
(***************************************************************************)
C8_IdentityInjective ==
    ret /= <<>> =>
       /\ ret[1] = ret[2]
       /\ (args[1] /= args[2] => ret[1] /= ret[3])

\* The half of C8 that holds: a repeated call returns the same identity.
C8_Deterministic == ret /= <<>> => ret[1] = ret[2]

(***************************************************************************)
(* Calls of resolve_import_path by two importing files of one scan.  The   *)
(* importing files are on disk (they were listed and read); the targets    *)
(* below libs/utils vary.                                                  *)
(***************************************************************************)
\* Most target files on disk.
MaxTargets == 2

Importers == {"libs/utils/x.ts", "libs/other/y.ts"}

Targets == { "/r/libs/utils/helper.ts", "/r/libs/utils/helper.tsx",
             "/r/libs/utils/helper/index.ts", "/r/libs/utils/helper/index.tsx" }

Specifiers == {"./helper", "../utils/helper", "./helper.ts", "../other/helper"}

ResolveInit ==
    /\ root_path \in Roots
    /\ \E t \in SUBSET Targets :
          /\ Cardinality(t) <= MaxTargets
          /\ disk = { "/r/" \o i : i \in Importers } \cup t
    /\ sources = <<>> /\ all_files = <<>> /\ parsed = <<>> /\ entities_map = <<>>
    /\ pc = "idle" /\ fi = 1 /\ k = 1 /\ result = NoResult
    /\ op = "resolve_import_path"
    /\ \E i1, i2 \in Importers, s1, s2 \in Specifiers :
          args = << <<join(root_path, i1), s1>>, <<join(root_path, i2), s2>> >>
    /\ ret = <<>>

CallResolve ==
    /\ op = "resolve_import_path" /\ ret = <<>>
    /\ ret' = << resolve_import_path(args[1][1], args[1][2], root_path),
                 resolve_import_path(args[2][1], args[2][2], root_path) >>
    /\ UNCHANGED <<scanVars, op, args>>

ResolveNext == CallResolve

ResolveSpec == ResolveInit /\ [][ResolveNext]_vars

\* The file a relative specifier written in importer denotes: the
\* importer's directory followed by the specifier, "." and ".." applied.
LogicalTarget(importer, source) ==
    LET ic == NonEmpty(Split(canonicalize(importer)[1]))
    IN  AbsPath(LexNorm(SubSeq(ic, 1, Len(ic) - 1), Split(source)))

SameLogicalTarget ==
    LogicalTarget(args[1][1], args[1][2]) = LogicalTarget(args[2][1], args[2][2])

\* Some candidate of the first call, or its base path, is a file on disk.
TargetOnDisk ==
    LET b == base_path_of(args[1][1], args[1][2], root_path)[1]
    IN  \/ first_existing(candidates(b), 1) /= 0
        \/ is_file(b)

(***************************************************************************)
(* C7. Two importing files whose specifiers denote the same logical target *)
(* get the same path string from resolve_import_path, when the target is   *)
(* on disk and when it is not.                                             *)
(***************************************************************************)
C7_StableAcrossImporters ==
    (ret /= <<>> /\ SameLogicalTarget) => ret[1] = ret[2]

\* The half of C7 that holds: the same string when the target is on disk.
C7_StableWhenOnDisk ==
    (ret /= <<>> /\ SameLogicalTarget /\ TargetOnDisk) => ret[1] = ret[2]

(***************************************************************************)
(* The text level of parse_typescript_file: the declaration loop over the  *)
(* comment-stripped lines and the local usage pass.                        *)
(***************************************************************************)
\* str::find: the first position where p occurs in s, 0 for None.
find(s, p) ==
    LET at == { i \in 1..(Len(s) - Len(p) + 1) : SubSeq(s, i, i + Len(p) - 1) = p }
    IN  IF at = {} THEN 0 ELSE CHOOSE i \in at : \A j \in at : i <= j

contains(s, p) == find(s, p) /= 0

\* char::is_whitespace and the \s of the patterns, on ASCII: space, tab,
\* line feed, form feed, carriage return (and the vertical tab U+000B,
\* which no text of the model holds).
is_whitespace(c) == c \in {" ", "\t", "\n", "\f", "\r"}

RECURSIVE trim_start(_)
trim_start(s) ==
    IF s /= "" /\ is_whitespace(Char(s, 1)) THEN trim_start(StrFrom(s, 1)) ELSE s

RECURSIVE trim_end(_)
trim_end(s) ==
    IF s /= "" /\ is_whitespace(Char(s, Len(s)))
    THEN trim_end(SubSeq(s, 1, Len(s) - 1)) ELSE s

trim(s) == trim_end(trim_start(s))

\* str::lines: the pieces between newlines, a carriage return dropped when
\* it stands right before the newline that ends the piece (a last piece
\* that no newline ends keeps it), no empty piece after a final newline.
RECURSIVE lines_from(_, _)
lines_from(s, i) ==
    IF i > Len(s) THEN <<>>
    ELSE LET n   == line_comment_end(s, i)
             cur == SubSeq(s, i, n - 1)
         IN  <<(IF n <= Len(s) /\ ends_with(cur, "\r")
                THEN SubSeq(cur, 1, Len(cur) - 1) ELSE cur)>>
             \o lines_from(s, n + 1)

lines(s) == lines_from(s, 1)

\* The characters of an identifier (char::is_alphanumeric or '_'), which
\* are the word characters of the regex as well; ASCII texts only.
WordChars ==
    LET w == "abcdefghijklmnopqrstuvwxyzABCDEFGHIJKLMNOPQRSTUVWXYZ0123456789_"
    IN  { Char(w, i) : i \in 1..Len(w) }

is_word_char(c) == c \in WordChars

RECURSIVE take_identifier(_)
take_identifier(s) ==
    IF s /= "" /\ is_word_char(Char(s, 1))
    THEN Char(s, 1) \o take_identifier(StrFrom(s, 1))
    ELSE ""

\* Lines 384-401; <<>> is None.
extract_export_name(line, keyword) ==
    IF find(line, keyword) = 0 THEN <<>>
    ELSE LET identifier ==
               take_identifier(trim_start(StrFrom(line, find(line, keyword) + Len(keyword) - 1)))
         IN  IF identifier /= "" THEN <<identifier>> ELSE <<>>

\* A word boundary of the regex lies before position i of s.
word_boundary(s, i) ==
    LET before == i > 1 /\ i - 1 <= Len(s) /\ is_word_char(Char(s, i - 1))
        after  == i >= 1 /\ i <= Len(s) /\ is_word_char(Char(s, i))
    IN  before /= after

\* The matches of \bname\b in content; a name made of word characters
\* cannot match at two overlapping places.
word_matches(content, name) ==
    { i \in 1..(Len(content) - Len(name) + 1) :
         /\ SubSeq(content, i, i + Len(name) - 1) = name
         /\ word_boundary(content, i)
         /\ word_boundary(content, i + Len(name)) }

\* Lines 557-569.
is_entity_used_locally(content, entity_name) ==
    Cardinality(word_matches(content, entity_name)) > 1

\* Lines 592-650: one of the five keyword checks of a line.
keyword_entity(trimmed, keyword, kind, file_path, deps) ==
    IF /\ contains(trimmed, "export") /\ contains(trimmed, keyword)
       /\ (keyword = "type" => ~contains(trimmed, "typeof"))
       /\ extract_export_name(trimmed, keyword) /= <<>>
    THEN <<Entity_new(extract_export_name(trimmed, keyword)[1], kind, file_path, deps)>>
    ELSE <<>>

\* Lines 652-683: the const/let/var check of a line.
binding_entity(trimmed, file_path, deps) ==
    LET keyword == IF starts_with(trimmed, "export const") THEN "const"
                   ELSE IF starts_with(trimmed, "export let") THEN "let"
                   ELSE "var"
    IN  IF /\ \/ starts_with(trimmed, "export const")
              \/ starts_with(trimmed, "export let")
              \/ starts_with(trimmed, "export var")
           /\ extract_export_name(trimmed, keyword) /= <<>>
        THEN <<Entity_new(extract_export_name(trimmed, keyword)[1],
                          IF contains(trimmed, "=>") \/ contains(trimmed, "= function")
                          THEN "Function" ELSE "Const",
                          file_path, deps)>>
        ELSE <<>>

\* Lines 585-683: the entities one line adds.
line_entities(line, file_path, deps) ==
    LET trimmed == trim(line) IN
    IF trimmed = "" THEN <<>>
    ELSE keyword_entity(trimmed, "class", "Class", file_path, deps)
         \o keyword_entity(trimmed, "enum", "Enum", file_path, deps)
         \o keyword_entity(trimmed, "type", "Type", file_path, deps)
         \o keyword_entity(trimmed, "interface", "Interface", file_path, deps)
         \o keyword_entity(trimmed, "function", "Function", file_path, deps)
         \o binding_entity(trimmed, file_path, deps)

\* Lines 584-684.
RECURSIVE declared_entities(_, _, _)
declared_entities(ls, file_path, deps) ==
    IF ls = <<>> THEN <<>>
    ELSE line_entities(Head(ls), file_path, deps)
         \o declared_entities(Tail(ls), file_path, deps)

\* Lines 687-691.
mark_used_locally(content, entities) ==
    [ i \in 1..Len(entities) |->
        IF is_entity_used_locally(content, entities[i].name)
        THEN [entities[i] EXCEPT !.used = TRUE] ELSE entities[i] ]

\* Lines 576-696 for a file already read, its imports given.
parse_content(content, file_path, deps) ==
    mark_used_locally(content,
        declared_entities(lines(strip_comments(content)), file_path, deps))

(***************************************************************************)
(* Calls of the text level of parse_typescript_file on one file's text.    *)
(***************************************************************************)
\* Most pieces a file's text is made of.
MaxPieces == 4

Pieces == {"export class F", " F", " FB", "\n", "//", "/*", "*/"}

RECURSIVE ContentsOfLen(_)
ContentsOfLen(n) ==
    IF n = 0 THEN {""}
    ELSE { t \o c : t \in ContentsOfLen(n - 1), c \in Pieces }

Contents == UNION { ContentsOfLen(n) : n \in 0..MaxPieces }

ParsedFile == "/r/libs/a.ts"

LocalInit ==
    /\ ScanIdle
    /\ op = "parse_typescript_file" /\ args \in Contents /\ ret = <<>>

CallParse ==
    /\ op = "parse_typescript_file" /\ ret = <<>>
    /\ ret' = <<parse_content(args, ParsedFile, <<>>)>>
    /\ UNCHANGED <<scanVars, op, args>>

LocalNext == CallParse

LocalSpec == LocalInit /\ [][LocalNext]_vars

\* The number of places where name stands in text as a whole word: neither
\* the character before it nor the one after it is an identifier character.
WholeWordCount(text, name) ==
    Cardinality({ i \in 1..(Len(text) - Len(name) + 1) :
        /\ SubSeq(text, i, i + Len(name) - 1) = name
        /\ (i > 1 => Char(text, i - 1) \notin WordChars)
        /\ (i + Len(name) <= Len(text) => Char(text, i + Len(name)) \notin WordChars) })

(***************************************************************************)
(* C6. A declaration extracted from a file is flagged used by its own file *)
(* exactly when its name occurs more than once as a whole word in the      *)
(* file's comment-stripped text; occurrences inside comments do not count. *)
(***************************************************************************)
C6_LocalUsageStripped ==
    ret /= <<>> =>
       \A i \in 1..Len(ret[1]) :
          ret[1][i].used <=> WholeWordCount(strip_comments(args), ret[1][i].name) > 1

\* What the usage pass computes: the count is taken in the raw text, so a
\* longer identifier does not count and a comment does.
C6_LocalUsageRaw ==
    ret /= <<>> =>
       \A i \in 1..Len(ret[1]) :
          ret[1][i].used <=> WholeWordCount(args, ret[1][i].name) > 1

(***************************************************************************)
(* Calls of the text level of parse_typescript_file on a file made of      *)
(* exported bindings, one per line.                                        *)
(***************************************************************************)
\* Most binding lines in a file.
MaxLines == 2

BindingKeywords == {"const", "let", "var"}

\* What stands after the keyword: a name, or a destructuring pattern, from
\* which no name can be extracted.
BindingTargets == {"f", "{ a }"}

\* The type annotation between the target and the assignment, if any.
BindingAnnotations == {"", ": (x: number) => void"}

\* The right-hand side: a value, an arrow function, a function expression.
BindingValues == {"h", "(x) => x", "function (x) { return x; }"}

Bindings ==
    [ keyword : BindingKeywords, target : BindingTargets,
      annotation : BindingAnnotations, value : BindingValues ]

RenderBinding(b) ==
    "export " \o b.keyword \o " " \o b.target \o b.annotation \o " = " \o b.value \o ";"

RECURSIVE RenderBindings(_)
RenderBindings(bs) ==
    IF bs = <<>> THEN ""
    ELSE RenderBinding(Head(bs)) \o "\n" \o RenderBindings(Tail(bs))

BindInit ==
    /\ ScanIdle
    /\ op = "parse_bindings" /\ args \in SeqsUpTo(Bindings, MaxLines) /\ ret = <<>>

ParseBindings ==
    /\ op = "parse_bindings" /\ ret = <<>>
    /\ ret' = <<parse_content(RenderBindings(args), ParsedFile, <<>>)>>
    /\ UNCHANGED <<scanVars, op, args>>

BindNext == ParseBindings

BindSpec == BindInit /\ [][BindNext]_vars

\* The name and kind of the records, in order.
NamesAndKinds(entities) ==
    [ i \in 1..Len(entities) |-> <<entities[i].name, entities[i].entity_type>> ]

\* The bindings with an extractable name, each with the kind Function when
\* IsFunction holds of it and Const otherwise.
BindingKinds(bs, IsFunction(_)) ==
    LET named == SelectSeq(bs, LAMBDA b : b.target = "f") IN
    [ i \in 1..Len(named) |->
        <<"f", IF IsFunction(named[i]) THEN "Function" ELSE "Const">> ]

\* The right-hand side holds "=>" or is a function expression.
ValueIsFunction(b) == contains(b.value, "=>") \/ starts_with(b.value, "function")

\* The line holds "=>" or "= function" anywhere.
LineIsFunction(b) ==
    contains(RenderBinding(b), "=>") \/ contains(RenderBinding(b), "= function")

(***************************************************************************)
(* C22. A line beginning with "export const", "export let" or "export var" *)
(* that has an extractable name yields a symbol of kind Const, unless the  *)
(* right-hand side holds "=>" or a function-expression assignment, then of *)
(* kind Function; a "=>" left of the assignment does not make it one.      *)
(***************************************************************************)
C22_BindingKind ==
    ret /= <<>> => NamesAndKinds(ret[1]) = BindingKinds(args, ValueIsFunction)

\* The kind as the whole line decides it.
C22_BindingKindByLine ==
    ret /= <<>> => NamesAndKinds(ret[1]) = BindingKinds(args, LineIsFunction)

(***************************************************************************)
(* The text level of extract_imports: the three regular expressions, read  *)
(* left to right.  In each of them a repetition is followed by a character *)
(* outside the repeated class, so a match at a position is unique and no   *)
(* backtracking is modelled.  \s and \w are taken on ASCII texts.          *)
(***************************************************************************)
\* p stands in s at position i.
lit_at(s, i, p) ==
    i >= 1 /\ i + Len(p) - 1 <= Len(s) /\ SubSeq(s, i, i + Len(p) - 1) = p

\* str::find from position i on: the first position >= i where p stands,
\* 0 for none.
find_at(s, p, i) ==
    LET at == { n \in i..(Len(s) - Len(p) + 1) : SubSeq(s, n, n + Len(p) - 1) = p }
    IN  IF at = {} THEN 0 ELSE CHOOSE n \in at : \A m \in at : n <= m

\* The position after the longest run of characters of a class from i on.
span_end(s, i, In(_)) ==
    LET out == { n \in i..Len(s) : ~In(Char(s, n)) }
    IN  IF out = {} THEN (IF i > Len(s) THEN i ELSE Len(s) + 1)
        ELSE CHOOSE n \in out : \A m \in out : n <= m

not_close_brace(c) == c /= "}"

\* ['"] of the import patterns.
is_path_quote(c) == c = "'" \/ c = "\""

not_path_quote(c) == ~is_path_quote(c)

\* ['"]([^'"]+)['"] at position i: <<path, position after>> or <<>>.
quoted_path_at(s, i) ==
    LET e == span_end(s, i + 1, not_path_quote) IN
    IF /\ i >= 1 /\ i <= Len(s) /\ is_path_quote(Char(s, i))
       /\ e > i + 1 /\ e <= Len(s) /\ is_path_quote(Char(s, e))
    THEN <<SubSeq(s, i + 1, e - 1), e + 1>>
    ELSE <<>>

\* Line 476: import\s*\{([^}]*)\}\s*from at position i.
normalize_match(s, i) ==
    LET a == span_end(s, i + 6, is_whitespace)
        b == span_end(s, a + 1, not_close_brace)
        c == span_end(s, b + 1, is_whitespace)
    IN  IF /\ lit_at(s, i, "import") /\ lit_at(s, a, "{") /\ lit_at(s, b, "}")
           /\ lit_at(s, c, "from")
        THEN <<[names |-> SubSeq(s, a + 1, b - 1), end |-> c + 4]>>
        ELSE <<>>

\* Line 484: import\s*\{([^}]+)\}\s*from\s*['"]([^'"]+)['"] at position i.
named_match(s, i) ==
    LET a == span_end(s, i + 6, is_whitespace)
        b == span_end(s, a + 1, not_close_brace)
        c == span_end(s, b + 1, is_whitespace)
        q == quoted_path_at(s, span_end(s, c + 4, is_whitespace))
    IN  IF /\ lit_at(s, i, "import") /\ lit_at(s, a, "{") /\ b > a + 1
           /\ lit_at(s, b, "}") /\ lit_at(s, c, "from") /\ q /= <<>>
        THEN <<[names |-> SubSeq(s, a + 1, b - 1), path |-> q[1], end |-> q[2]]>>
        ELSE <<>>

\* Line 487: import\s+(\w+)\s+from\s*['"]([^'"]+)['"] at position i.
default_match(s, i) ==
    LET a == span_end(s, i + 6, is_whitespace)
        b == span_end(s, a, is_word_char)
        c == span_end(s, b, is_whitespace)
        q == quoted_path_at(s, span_end(s, c + 4, is_whitespace))
    IN  IF /\ lit_at(s, i, "import") /\ a > i + 6 /\ b > a /\ c > b
           /\ lit_at(s, c, "from") /\ q /= <<>>
        THEN <<[names |-> SubSeq(s, a, b - 1), path |-> q[1], end |-> q[2]]>>
        ELSE <<>>

\* Lines 490-492:
\* import\s*\(\s*['"]([^'"]+)['"]\s*\)\.then\s*\(\s*\w+\s*=>\s*\w+\.(\w+)\s*\)
lazy_match(s, i) ==
    LET a == span_end(s, i + 6, is_whitespace)
        q == quoted_path_at(s, span_end(s, a + 1, is_whitespace))
        b == IF q = <<>> THEN 0 ELSE span_end(s, q[2], is_whitespace)
        c == span_end(s, b + 6, is_whitespace)
        d == span_end(s, c + 1, is_whitespace)
        e == span_end(s, d, is_word_char)
        f == span_end(s, e, is_whitespace)
        g == span_end(s, f + 2, is_whitespace)
        h == span_end(s, g, is_word_char)
        k1 == span_end(s, h + 1, is_word_char)
        l == span_end(s, k1, is_whitespace)
    IN  IF /\ lit_at(s, i, "import") /\ lit_at(s, a, "(") /\ q /= <<>>
           /\ lit_at(s, b, ").then") /\ lit_at(s, c, "(")
           /\ e > d /\ lit_at(s, f, "=>") /\ h > g /\ lit_at(s, h, ".")
           /\ k1 > h + 1 /\ lit_at(s, l, ")")
        THEN <<[names |-> SubSeq(s, h + 1, k1 - 1), path |-> q[1], end |-> l + 1]>>
        ELSE <<>>

match_at(re, s, i) ==
    IF re = "named" THEN named_match(s, i)
    ELSE IF re = "default" THEN default_match(s, i)
    ELSE lazy_match(s, i)

\* An iteration that stops after the first match.
RECURSIVE captures_iter_once(_, _, _)
captures_iter_once(re, s, i) ==
    LET p == find_at(s, "import", i)
        m == match_at(re, s, p)
    IN  IF p = 0 THEN <<>>
        ELSE IF m = <<>> THEN captures_iter_once(re, s, p + 1)
        ELSE <<m[1]>>

\* Regex::captures_iter: the matches from left to right, none overlapping
\* another.  Every pattern starts with the word import.
RECURSIVE captures_iter(_, _, _)
captures_iter(re, s, i) ==
    LET p == find_at(s, "import", i)
        m == match_at(re, s, p)
    IN  IF p = 0 THEN <<>>
        ELSE IF m = <<>> THEN captures_iter(re, s, p + 1)
        ELSE <<m[1]>> \o captures_iter(re, s, m[1].end)

\* str::replace of one character by another.
RECURSIVE replace_char(_, _, _)
replace_char(s, from, to) ==
    LET p == find_at(s, from, 1) IN
    IF p = 0 THEN s
    ELSE SubSeq(s, 1, p - 1) \o to \o replace_char(StrFrom(s, p), from, to)

\* Lines 477-481: replace_all of the normalising pattern, from position i.
RECURSIVE normalize_from(_, _)
normalize_from(s, i) ==
    LET p == find_at(s, "import", i)
        m == normalize_match(s, p)
    IN  IF p = 0 THEN StrFrom(s, i - 1)
        ELSE IF m = <<>>
        THEN SubSeq(s, i, p) \o normalize_from(s, p + 1)
        ELSE SubSeq(s, i, p - 1)
             \o "import {"
             \o replace_char(replace_char(m[1].names, "\n", " "), "\r", " ")
             \o "} from"
             \o normalize_from(s, m[1].end)

\* str::split(',').
RECURSIVE split_commas(_)
split_commas(s) ==
    LET p == find_at(s, ",", 1) IN
    IF p = 0 THEN <<s>>
    ELSE <<SubSeq(s, 1, p - 1)>> \o split_commas(StrFrom(s, p))

\* A group whose aliased entries are named by the alias.
RECURSIVE group_imports_alias(_, _)
group_imports_alias(parts, resolved_path) ==
    IF parts = <<>> THEN <<>>
    ELSE LET name_part == trim(Head(parts))
             name == IF find(name_part, " as ") /= 0
                     THEN trim(StrFrom(name_part, find(name_part, " as ") + 3))
                     ELSE name_part
         IN  (IF name_part = "" THEN <<>> ELSE <<ImportInfo_new(name, resolved_path)>>)
             \o group_imports_alias(Tail(parts), resolved_path)

\* A group whose empty entries give an edge too.
RECURSIVE group_imports_keep_empty(_, _)
group_imports_keep_empty(parts, resolved_path) ==
    IF parts = <<>> THEN <<>>
    ELSE LET name_part == trim(Head(parts))
             name == IF find(name_part, " as ") /= 0
                     THEN trim(SubSeq(name_part, 1, find(name_part, " as ") - 1))
                     ELSE name_part
         IN  <<ImportInfo_new(name, resolved_path)>>
             \o group_imports_keep_empty(Tail(parts), resolved_path)

\* Lines 506-520: the edges of one named group.
RECURSIVE group_imports(_, _)
group_imports(parts, resolved_path) ==
    IF parts = <<>> THEN <<>>
    ELSE LET name_part == trim(Head(parts))
             name == IF find(name_part, " as ") /= 0
                     THEN trim(SubSeq(name_part, 1, find(name_part, " as ") - 1))
                     ELSE name_part
         IN  (IF name_part = "" THEN <<>> ELSE <<ImportInfo_new(name, resolved_path)>>)
             \o group_imports(Tail(parts), resolved_path)

\* Lines 495-521, 523-536 and 539-547: the edges of the captures of one
\* pattern.
\* The body of each loop: the edges of one capture, resolved being what
\* resolve_import_path returned for its path.
capture_edges(re, cap, resolved) ==
    IF resolved = <<>> THEN <<>>
    ELSE IF re = "named"
    THEN group_imports(split_commas(cap.names), resolved[1])
    ELSE IF re = "default" /\ (cap.names = "type" \/ cap.names = "from")
    THEN <<>>
    ELSE <<ImportInfo_new(cap.names, resolved[1])>>

RECURSIVE capture_imports(_, _, _, _)
capture_imports(re, caps, file_path, root) ==
    IF caps = <<>> THEN <<>>
    ELSE capture_edges(re, Head(caps),
                       resolve_import_path(file_path, Head(caps).path, root))
         \o capture_imports(re, Tail(caps), file_path, root)

\* The loops with the default-import loop run first.
imports_default_first(normalized_content, file_path, root) ==
    capture_imports("default", captures_iter("default", normalized_content, 1), file_path, root)
    \o capture_imports("named", captures_iter("named", normalized_content, 1), file_path, root)
    \o capture_imports("lazy", captures_iter("lazy", normalized_content, 1), file_path, root)

extract_imports_text_default_first(content, file_path, root) ==
    imports_default_first(normalize_from(strip_comments(content), 1), file_path, root)

\* Lines 495-547: the three loops over the normalised text.
imports_of_normalized(normalized_content, file_path, root) ==
    capture_imports("named", captures_iter("named", normalized_content, 1), file_path, root)
    \o capture_imports("default", captures_iter("default", normalized_content, 1), file_path, root)
    \o capture_imports("lazy", captures_iter("lazy", normalized_content, 1), file_path, root)

\* Lines 463-550, on the text of the file.
extract_imports_text(content, file_path, root) ==
    imports_of_normalized(normalize_from(strip_comments(content), 1), file_path, root)

\* Lines 579-696: the entities and the edges returned, deps being what
\* extract_imports returned.
parse_result(content, file_path, deps) ==
    [ entities |-> parse_content(content, file_path, deps), imports |-> deps ]

\* Lines 571-697 on the text read from the file.
parse_text(content, file_path, root) ==
    parse_result(content, file_path, extract_imports_text(content, file_path, root))

(***************************************************************************)
(* Scans of one file given by its text.  The file is written as a list of  *)
(* statements, one per line; a statement is an import of one of the three  *)
(* shapes or a class declaration, written plainly, behind a line comment,  *)
(* inside a block comment or inside a string literal.                      *)
(***************************************************************************)
\* Most statements in the file.
MaxStmts == 2

Stmt(shape, wrap, layout, entries, spec, param) ==
    [shape |-> shape, wrap |-> wrap, layout |-> layout, entries |-> entries,
     spec |-> spec, param |-> param]

\* The layouts of a named group: on one line; one entry per line; the same
\* with a comma after the last entry; every word on a line of its own.
\* An entry of a named group is <<Orig, Alias>>, Alias "" for none; the
\* entry <<"", "">> is an empty one.  For the other shapes the one entry
\* holds the imported or declared name.
BaseStmts ==
    { Stmt("named", "plain", "line", << <<"A", "">> >>, "./a", ""),
      Stmt("default", "plain", "line", << <<"D", "">> >>, "./a", ""),
      Stmt("lazy", "plain", "line", << <<"M", "">> >>, "./a", "m"),
      Stmt("class", "plain", "line", << <<"K", "">> >>, "", "") }

GroupEntries ==
    << << <<"A", "F">> >>,
       << <<"A", "">>, <<"B", "G">> >>,
       << <<"B", "G">>, <<"", "">>, <<"A", "">> >> >>

GroupStmts ==
    { Stmt("named", "plain", g[1], GroupEntries[g[2]], "./a", "") :
        g \in { <<"line", 1>>, <<"line", 2>>, <<"line", 3>>, <<"multi", 2>>,
                <<"trailing", 2>>, <<"trailing", 3>>, <<"split", 1>>, <<"split", 2>> } }

ExternalStmts ==
    { Stmt("named", "plain", "line", << <<"U", "">> >>, "rxjs", ""),
      Stmt("default", "plain", "line", << <<"V", "">> >>, "rxjs", ""),
      Stmt("lazy", "plain", "line", << <<"W", "">> >>, "rxjs", "m"),
      Stmt("named", "plain", "line", << <<"S", "">> >>, "@awork/s", "") }

LazyStmts ==
    { Stmt("lazy", "plain", "line", << <<"N", "">> >>, "../libs/a", "mod") }

Stmts ==
    { [b EXCEPT !.wrap = w] : b \in BaseStmts, w \in {"plain", "line"} }
    \cup { [b EXCEPT !.wrap = w] :
             b \in { c \in BaseStmts : c.shape \in {"named", "class"} },
             w \in {"block", "string"} }
    \cup GroupStmts \cup ExternalStmts \cup LazyStmts

Aliases == {"F", "G"}

\* The text of the entries of a named group.
RECURSIVE RenderEntries(_, _, _)
RenderEntries(entries, sep, i) ==
    IF i > Len(entries) THEN ""
    ELSE (IF entries[i][2] = "" THEN entries[i][1]
          ELSE IF sep = "\n    " THEN entries[i][1] \o sep \o "as" \o sep \o entries[i][2]
          ELSE entries[i][1] \o " as " \o entries[i][2])
         \o (IF i < Len(entries) THEN "," \o sep ELSE "")
         \o RenderEntries(entries, sep, i + 1)

RenderPlain(st) ==
    IF st.shape = "named"
    THEN IF st.layout = "line"
         THEN "import { " \o RenderEntries(st.entries, " ", 1) \o " } from '" \o st.spec \o "';"
         ELSE "import {\n  "
              \o RenderEntries(st.entries, IF st.layout = "split" THEN "\n    " ELSE "\n  ", 1)
              \o (IF st.layout = "trailing" THEN "," ELSE "")
              \o "\n} from '" \o st.spec \o "';"
    ELSE IF st.shape = "default"
    THEN "import " \o st.entries[1][1] \o " from '" \o st.spec \o "';"
    ELSE IF st.shape = "lazy"
    THEN "x = () => import('" \o st.spec \o "').then(" \o st.param \o " => "
         \o st.param \o "." \o st.entries[1][1] \o ");"
    ELSE "export class " \o st.entries[1][1] \o " {}"

RenderStmt(st) ==
    IF st.wrap = "line" THEN "// " \o RenderPlain(st)
    ELSE IF st.wrap = "block" THEN "/* " \o RenderPlain(st) \o " */"
    ELSE IF st.wrap = "string" THEN "const s = \"" \o RenderPlain(st) \o "\";"
    ELSE RenderPlain(st)

RECURSIVE Render(_)
Render(file) ==
    IF file = <<>> THEN ""
    ELSE RenderStmt(Head(file)) \o "\n" \o Render(Tail(file))

ImportingFile == "/r/libs/m.ts"

\* The file the imports point at; it is on the disk, and empty.
ImportedFile == "/r/libs/a.ts"

\* The statements of each file on the disk.
FileStmts(file) == (ImportingFile :> file) @@ (ImportedFile :> <<>>)

\* Lines 572-574: the text read from a file of the disk.
read_text(path) == Render(sources[path])

\* The state at line 107: both files were listed, in either order.
ExtractInit ==
    /\ root_path = "/r"
    /\ disk = {ImportingFile, ImportedFile}
    /\ all_files \in AllFileLists(root_path)
    /\ parsed = <<>>
    /\ entities_map = <<>>
    /\ pc = "idle" /\ fi = 1 /\ k = 1 /\ result = NoResult
    /\ op = "scan_text" /\ args \in SeqsUpTo(Stmts, MaxStmts) /\ ret = <<>>
    /\ sources = FileStmts(args)

\* The map the loop of lines 116-151 builds from m over the listed files,
\* results holding what line 117 returned for each of them.
RECURSIVE ScanTexts(_, _, _)
ScanTexts(m, order, results) ==
    IF order = <<>> THEN m
    ELSE ScanTexts(FoldEntities(FoldImports(m, results[Head(order)].imports),
                                results[Head(order)].entities),
                   Tail(order), results)

\* Lines 116-153: every listed file is parsed and its imports and entities
\* are merged into the map; ret keeps the parse result of the importing
\* file.
ScanText ==
    /\ op = "scan_text" /\ ret = <<>>
    /\ parsed' = [ f \in Range(all_files) |-> parse_text(read_text(f), f, root_path) ]
    /\ ret' = <<parsed'[ImportingFile]>>
    /\ entities_map' = ScanTexts(<<>>, all_files, parsed')
    /\ UNCHANGED <<root_path, disk, sources, all_files, pc, fi, k, result, op, args>>

ExtractNext == ScanText

ExtractSpec == ExtractInit /\ [][ExtractNext]_vars

(***************************************************************************)
(* What a file of statements says, read off the statements.                *)
(***************************************************************************)
Commented(st) == st.wrap \in {"line", "block"}

External(st) ==
    /\ st.shape /= "class"
    /\ ~starts_with(st.spec, "@awork/")
    /\ ~starts_with(st.spec, "./") /\ ~starts_with(st.spec, "../")

Keep(file, P(_)) == SelectSeq(file, P)

NotCommented(st) == ~Commented(st)

NotExternal(st) == ~External(st)

\* The file with every named group written on one line.
OneLine(file) == [ i \in 1..Len(file) |-> [file[i] EXCEPT !.layout = "line"] ]

\* The names a statement imports or declares.
RECURSIVE EntryNames(_)
EntryNames(entries) ==
    IF entries = <<>> THEN <<>>
    ELSE (IF Head(entries)[1] = "" THEN <<>> ELSE <<Head(entries)[1]>>)
         \o EntryNames(Tail(entries))

\* The edges a plainly written import statement asks for.
RECURSIVE EdgesOfNames(_, _)
EdgesOfNames(names, path) ==
    IF names = <<>> THEN <<>>
    ELSE <<ImportInfo_new(Head(names), path)>> \o EdgesOfNames(Tail(names), path)

StmtEdges(st) ==
    EdgesOfNames(EntryNames(st.entries),
                 resolve_import_path(ImportingFile, st.spec, root_path)[1])

\* The edges of the plain, internal statements of one shape, in order.
RECURSIVE ShapeEdges(_, _)
ShapeEdges(file, shape) ==
    IF file = <<>> THEN <<>>
    ELSE (IF Head(file).shape = shape /\ Head(file).wrap = "plain" /\ ~External(Head(file))
          THEN StmtEdges(Head(file)) ELSE <<>>)
         \o ShapeEdges(Tail(file), shape)

\* The edges of a result whose name is one of names, in order.
EdgesNamed(imports, names) == SelectSeq(imports, LAMBDA e : e.name \in names)

\* Name, kind and dependencies of the declarations of a result.
Declared(r) ==
    [ i \in 1..Len(r.entities) |->
        <<r.entities[i].name, r.entities[i].entity_type, r.entities[i].deps>> ]

\* The result of scanning a file of statements; ret holds it for args.
ParseOfFile(file) ==
    IF ret /= <<>> /\ file = args THEN ret[1]
    ELSE parse_text(Render(file), ImportingFile, root_path)

\* The edges of a file of statements; ret holds them for args.
ImportsOfFile(file) ==
    IF ret /= <<>> /\ file = args THEN ret[1].imports
    ELSE extract_imports_text(Render(file), ImportingFile, root_path)

(***************************************************************************)
(* C11. A declaration line or an import statement behind '//' or inside a  *)
(* block comment gives no declared symbol and no edge: the file's edges    *)
(* and declarations are those of the file without its commented            *)
(* statements; every plainly written internal import and declaration of    *)
(* the file is extracted; a statement written inside a string literal is   *)
(* still in the comment-stripped text.  (The used flag of a declaration is *)
(* C6's subject and is not compared.)                                      *)
(***************************************************************************)
C11_CommentInvariance ==
    ret /= <<>> =>
       /\ LET r == ParseOfFile(Keep(args, NotCommented))
          IN  ret[1].imports = r.imports /\ Declared(ret[1]) = Declared(r)
       /\ \A i \in 1..Len(args) :
             /\ (Commented(args[i])
                 /\ ~\E j \in 1..Len(args) :
                        /\ ~Commented(args[j])
                        /\ args[i].entries[1][1] \in Range(EntryNames(args[j].entries)))
                => /\ ~\E e \in Range(ret[1].imports) : e.name = args[i].entries[1][1]
                   /\ ~\E d \in Range(ret[1].entities) : d.name = args[i].entries[1][1]
             /\ (args[i].wrap = "plain" /\ args[i].shape = "class")
                => \E d \in Range(ret[1].entities) :
                      d.name = args[i].entries[1][1] /\ d.entity_type = "Class"
             /\ (args[i].wrap = "plain" /\ args[i].shape /= "class" /\ ~External(args[i]))
                => \A e \in Range(StmtEdges(args[i])) : e \in Range(ret[1].imports)
             /\ args[i].wrap = "string"
                => contains(strip_comments(Render(args)), RenderStmt(args[i]))

\* A file with a commented import and a plain declaration was scanned.
C11_Witness ==
    /\ ret /= <<>> /\ Len(args) = 2
    /\ args[1].wrap = "line" /\ args[1].shape = "named"
    /\ args[2].wrap = "plain" /\ args[2].shape = "class"
    /\ Len(ret[1].entities) = 1 /\ ret[1].imports = <<>>

(***************************************************************************)
(* C12. For every entry 'Orig as Alias' of a named import group the edge   *)
(* has the name Orig and the identity of (resolved path, Orig); no edge    *)
(* has the name of an alias.                                               *)
(***************************************************************************)
C12_AliasTransparency ==
    ret /= <<>> =>
       /\ \A e \in Range(ret[1].imports) : e.name \notin Aliases
       /\ \A i \in 1..Len(args) :
             (args[i].shape = "named" /\ args[i].wrap = "plain" /\ ~External(args[i])) =>
                \A n \in 1..Len(args[i].entries) :
                   args[i].entries[n][2] /= "" =>
                      \E e \in Range(ret[1].imports) :
                         /\ e.name = args[i].entries[n][1]
                         /\ e.path = resolve_import_path(ImportingFile, args[i].spec, root_path)[1]
                         /\ e.id = generate_entity_id(e.path, args[i].entries[n][1])

\* A group with an aliased entry was scanned and gave an edge.
C12_Witness ==
    /\ ret /= <<>> /\ Len(args) >= 1
    /\ args[1].shape = "named" /\ args[1].wrap = "plain"
    /\ \E n \in 1..Len(args[1].entries) : args[1].entries[n][2] = "G"
    /\ \E e \in Range(ret[1].imports) : e.name = "B"

(***************************************************************************)
(* C13. A named group written across several lines gives the edges of the  *)
(* same group written on one line: one edge per non-empty entry, in the    *)
(* order written; an empty entry (as after a trailing comma) gives none.   *)
(***************************************************************************)
C13_MultilineGroups ==
    ret /= <<>> =>
       /\ ret[1].imports = ImportsOfFile(OneLine(args))
       /\ (\A i \in 1..Len(args) : args[i].wrap /= "string") =>
             EdgesNamed(ret[1].imports, {"A", "B", "S", "U", ""}) = ShapeEdges(args, "named")

\* A group on several lines with a trailing comma and two entries was
\* scanned.
C13_Witness ==
    /\ ret /= <<>> /\ Len(args) >= 1
    /\ args[1].layout = "trailing" /\ Len(args[1].entries) = 3
    /\ Len(ret[1].imports) >= 2

(***************************************************************************)
(* C14. An import of a bare package name gives no edge, in each of the     *)
(* three shapes: the edges of the file and the map built from it are those *)
(* of the file without these imports, and no record carries their names.   *)
(***************************************************************************)
C14_ExternalSkipped ==
    ret /= <<>> =>
       /\ LET r == ParseOfFile(Keep(args, NotExternal))
          IN  /\ ret[1].imports = r.imports
              /\ entities_map = FoldEntities(FoldImports(<<>>, r.imports), r.entities)
       /\ \A i \in 1..Len(args) :
             (External(args[i]) /\ args[i].wrap = "plain") =>
                /\ ~\E e \in Range(ret[1].imports) : e.name = args[i].entries[1][1]
                /\ ~\E r \in Range(entities_map) : r.name = args[i].entries[1][1]

\* A file with a package import and an internal import was scanned.
C14_Witness ==
    /\ ret /= <<>> /\ Len(args) = 2
    /\ External(args[1]) /\ args[1].shape = "lazy"
    /\ args[2].shape = "default" /\ args[2].wrap = "plain" /\ ~External(args[2])
    /\ Len(ret[1].imports) = 1 /\ DOMAIN entities_map /= {}

(***************************************************************************)
(* C15. Each dynamic import import('<spec>').then(p => p.Member) with an   *)
(* internal specifier gives exactly one edge, named Member, with the path  *)
(* <spec> resolves to from the importing file, whatever the parameter      *)
(* name; k of them give k edges in source order.                           *)
(***************************************************************************)
C15_LazyImports ==
    (ret /= <<>> /\ \A i \in 1..Len(args) : args[i].wrap /= "string") =>
       EdgesNamed(ret[1].imports, {"M", "N", "W"}) = ShapeEdges(args, "lazy")

\* Two dynamic imports with different parameter names were scanned.
C15_Witness ==
    /\ ret /= <<>> /\ Len(args) = 2
    /\ args[1].shape = "lazy" /\ args[1].param = "mod" /\ args[1].wrap = "plain"
    /\ args[2].shape = "lazy" /\ args[2].param = "m" /\ args[2].wrap = "plain"
    /\ ~External(args[2])
    /\ Len(ret[1].imports) = 2

(***************************************************************************)
(* C24. The edge list of a file is ordered by import shape, not by source  *)
(* position: the edges of the named groups in source order, then those of  *)
(* the default imports in source order, then those of the dynamic imports  *)
(* in source order.                                                        *)
(***************************************************************************)
C24_EdgesByShape ==
    (ret /= <<>> /\ \A i \in 1..Len(args) : args[i].wrap /= "string") =>
       ret[1].imports = ShapeEdges(args, "named") \o ShapeEdges(args, "default")
                        \o ShapeEdges(args, "lazy")

\* A default import written before a named import was scanned: the edge of
\* the named import stands first in the list.
C24_Witness ==
    /\ ret /= <<>> /\ Len(args) = 2
    /\ args[1].shape = "default" /\ args[1].wrap = "plain" /\ ~External(args[1])
    /\ args[2].shape = "named" /\ args[2].wrap = "plain" /\ ~External(args[2])
    /\ Len(ret[1].imports) >= 2
    /\ ret[1].imports[1].name = args[2].entries[1][1]
    /\ ret[1].imports[Len(ret[1].imports)].name = args[1].entries[1][1]

(***************************************************************************)
(* C16. For an internal specifier with joined base path P the result is    *)
(* the canonical path of the first of P.ts, P.tsx, P/index.ts,             *)
(* P/index.tsx that exists; when none exists and P itself is a regular     *)
(* file, the canonical path of P; otherwise P with ".ts" appended, or P    *)
(* unchanged when it ends in ".ts" or ".tsx".                              *)
(***************************************************************************)
\* The joined base path of call n.
BaseOfCall(n) == base_path_of(args[n][1], args[n][2], root_path)[1]

\* The result the candidate order and the fallback alone give for P.
ByCandidates(P) ==
    IF exists(P \o ".ts") THEN canonicalize(P \o ".ts")
    ELSE IF exists(P \o ".tsx") THEN canonicalize(P \o ".tsx")
    ELSE IF exists(P \o "/index.ts") THEN canonicalize(P \o "/index.ts")
    ELSE IF exists(P \o "/index.tsx") THEN canonicalize(P \o "/index.tsx")
    ELSE IF ends_with(P, ".ts") \/ ends_with(P, ".tsx") THEN <<P>>
    ELSE <<P \o ".ts">>

NoCandidate(P) ==
    /\ ~exists(P \o ".ts") /\ ~exists(P \o ".tsx")
    /\ ~exists(P \o "/index.ts") /\ ~exists(P \o "/index.tsx")

C16_CandidateOrderOrBase ==
    ret /= <<>> =>
       \A n \in 1..2 :
          ret[n] = IF NoCandidate(BaseOfCall(n)) /\ is_file(BaseOfCall(n))
                   THEN canonicalize(BaseOfCall(n))
                   ELSE ByCandidates(BaseOfCall(n))

\* C16 as stated: the candidate order and the fallback alone.
C16_CandidateOrder ==
    ret /= <<>> => \A n \in 1..2 : ret[n] = ByCandidates(BaseOfCall(n))

\* Both helper.ts and helper.tsx are on disk and './helper' was resolved
\* from the same directory.
C16_Witness ==
    /\ ret /= <<>>
    /\ {"/r/libs/utils/helper.ts", "/r/libs/utils/helper.tsx"} \subseteq disk
    /\ args[1] = <<join(root_path, "libs/utils/x.ts"), "./helper">>
    /\ ret[1] = <<"/r/libs/utils/helper.ts">>

(***************************************************************************)
(* C17. A file whose parse fails does not end the scan and leaves the map  *)
(* as it is: between two files the map is the one built from the files     *)
(* before, the failing ones left out; at the end every listed file has     *)
(* been tried and the map is that of the list without the failing files.   *)
(***************************************************************************)
C17_ParseFailureSkipped ==
    /\ pc \in {"file", "done"} =>
          entities_map = ScanAll(<<>>, SelectSeq(SubSeq(all_files, 1, fi - 1), IsReadable))
    /\ pc = "done" =>
          /\ fi = Len(all_files) + 1
          /\ \A i \in 1..Len(all_files) : all_files[i] \in DOMAIN parsed

\* The scan ended; its first file failed to parse and a later file put
\* records into the map.
C17_Witness ==
    /\ pc = "done" /\ Len(all_files) >= 2
    /\ parsed[all_files[1]] = ParseError
    /\ IsReadable(all_files[2])
    /\ DOMAIN entities_map /= {}

(***************************************************************************)
(* The reports.  HashMap::values yields the records in an order that the   *)
(* hasher's per-process random keys decide: any order of the map's keys.   *)
(***************************************************************************)
\* The ASCII characters 32..95 and 97..126, in byte order.
AsciiLow == " !\"#$%&'()*+,-./0123456789:;<=>?@ABCDEFGHIJKLMNOPQRSTUVWXYZ[\\]^_"

AsciiHigh == "abcdefghijklmnopqrstuvwxyz{|}~"

\* The byte of an ASCII character.
byte_of(c) ==
    IF find(AsciiLow, c) /= 0 THEN 31 + find(AsciiLow, c)
    ELSE IF find(AsciiHigh, c) /= 0 THEN 96 + find(AsciiHigh, c)
    ELSE IF c = "\t" THEN 9
    ELSE IF c = "\n" THEN 10
    ELSE IF c = "\f" THEN 12
    ELSE 13

(***************************************************************************)
(* The digest of generate_entity_id: DefaultHasher::new() is SipHash-1-3   *)
(* with the key (0, 0); Hash for str writes the bytes of the key string    *)
(* and the byte 0xff; finish() is printed as 16 hex digits.  A 64-bit word *)
(* is kept as four 16-bit limbs, least significant first.  The records of  *)
(* the model carry the key string as their id; the digest is computed      *)
(* where its order is read.                                                *)
(***************************************************************************)
RECURSIVE bit_xor(_, _)
bit_xor(x, y) ==
    IF x = 0 THEN y
    ELSE IF y = 0 THEN x
    ELSE ((x + y) % 2) + 2 * bit_xor(x \div 2, y \div 2)

xor64(a, b) ==
    <<bit_xor(a[1], b[1]), bit_xor(a[2], b[2]), bit_xor(a[3], b[3]), bit_xor(a[4], b[4])>>

\* wrapping_add
add64(a, b) ==
    LET s1 == a[1] + b[1]
        s2 == a[2] + b[2] + (s1 \div 65536)
        s3 == a[3] + b[3] + (s2 \div 65536)
        s4 == a[4] + b[4] + (s3 \div 65536)
    IN  <<s1 % 65536, s2 % 65536, s3 % 65536, s4 % 65536>>

\* rotate_left by n bits, 0 <= n < 64.
rotl64(a, n) ==
    LET q == n \div 16
        r == n % 16
        limb(j) == LET src  == a[((j + 4 - q) % 4) + 1]
                       prev == a[((j + 7 - q) % 4) + 1]
                   IN  ((src * (2 ^ r)) % 65536) + (prev \div (2 ^ (16 - r)))
    IN  <<limb(0), limb(1), limb(2), limb(3)>>

\* One SipRound on the state <<v0, v1, v2, v3>>.
sip_round(v) ==
    LET a0 == add64(v[1], v[2])
        a1 == xor64(rotl64(v[2], 13), a0)
        b0 == rotl64(a0, 32)
        a2 == add64(v[3], v[4])
        a3 == xor64(rotl64(v[4], 16), a2)
        c0 == add64(b0, a3)
        c3 == xor64(rotl64(a3, 21), c0)
        c2 == add64(a2, a1)
        c1 == xor64(rotl64(a1, 17), c2)
    IN  <<c0, c1, rotl64(c2, 32), c3>>

\* The state of a hasher with the key (0, 0).
sip_init ==
    << <<25973, 28787, 28005, 29551>>, <<28525, 28260, 29281, 25711>>, <<29281, 28261, 26469, 27769>>, <<25971, 31092, 25698, 29797>> >>

\* The little-endian word of the bytes data[start .. start + 7]; a byte
\* past the end of data is 0, and top is or-ed into the last byte.
sip_word(data, start, top) ==
    LET byte(n) == IF start + n <= Len(data) THEN data[start + n] ELSE 0
    IN  << byte(0) + 256 * byte(1), byte(2) + 256 * byte(3),
           byte(4) + 256 * byte(5), byte(6) + 256 * (byte(7) + top) >>

\* One compression: v3 ^= m, a round, v0 ^= m.
sip_absorbed(w, m) == <<xor64(w[1], m), w[2], w[3], w[4]>>

sip_absorb(v, m) == sip_absorbed(sip_round(<<v[1], v[2], v[3], xor64(v[4], m)>>), m)

\* The full 8-byte blocks of data from start on, then the last block with
\* the length in its top byte.
RECURSIVE sip_write(_, _, _)
sip_write(v, data, start) ==
    IF start + 7 <= Len(data)
    THEN sip_write(sip_absorb(v, sip_word(data, start, 0)), data, start + 8)
    ELSE sip_absorb(v, sip_word(data, start, Len(data) % 256))

\* finish(): v2 ^= 0xff, three rounds, the xor of the four words.
sip_fold(w) == xor64(xor64(w[1], w[2]), xor64(w[3], w[4]))

sip_finish(v) ==
    sip_fold(sip_round(sip_round(sip_round(
                 <<v[1], v[2], xor64(v[3], <<255, 0, 0, 0>>), v[4]>>))))

\* key.hash(&mut hasher); hasher.finish()
default_hash(key) ==
    sip_finish(sip_write(sip_init,
                         [ i \in 1..(Len(key) + 1) |->
                             IF i <= Len(key) THEN byte_of(Char(key, i)) ELSE 255 ],
                         1))

HexDigits == "0123456789abcdef"

hex4(n) ==
    Char(HexDigits, (n \div 4096) + 1) \o Char(HexDigits, ((n \div 256) % 16) + 1)
    \o Char(HexDigits, ((n \div 16) % 16) + 1) \o Char(HexDigits, (n % 16) + 1)

\* format!("{:016x}", word)
format_016x(w) == hex4(w[4]) \o hex4(w[3]) \o hex4(w[2]) \o hex4(w[1])

\* The id string generate_entity_id returns for the key "{file_path}:{name}".
entity_id_hex(key) == format_016x(default_hash(key))

\* String::cmp: a is Less than b.
RECURSIVE str_less(_, _)
str_less(a, b) ==
    IF b = "" THEN FALSE
    ELSE IF a = "" THEN TRUE
    ELSE IF Char(a, 1) = Char(b, 1) THEN str_less(StrFrom(a, 1), StrFrom(b, 1))
    ELSE byte_of(Char(a, 1)) < byte_of(Char(b, 1))

\* The string the comparison reads: a.id, the digest of the record's key,
\* or a.file_path.
sort_key(e, field) == IF field = "id" THEN entity_id_hex(e.id) ELSE e.file_path

\* The place of e in the sorted list: behind every element that is not
\* greater (the sort is stable).
insert_at(sorted, e, at) ==
    SubSeq(sorted, 1, at - 1) \o <<e>> \o SubSeq(sorted, at, Len(sorted))

\* The least position of after, or the position behind the list.
first_of(after, len) ==
    IF after = {} THEN len + 1 ELSE CHOOSE i \in after : \A j \in after : i <= j

\* The positions whose element is greater than the key.
greater_than(sorted, key, field) ==
    { i \in 1..Len(sorted) : str_less(key, sort_key(sorted[i], field)) }

insert_sorted(sorted, e, field) ==
    insert_at(sorted, e,
              first_of(greater_than(sorted, sort_key(e, field), field), Len(sorted)))

\* Vec::sort_by on the field.
RECURSIVE sort_by(_, _)
sort_by(v, field) ==
    IF v = <<>> THEN <<>>
    ELSE insert_sorted(sort_by(SubSeq(v, 1, Len(v) - 1), field), v[Len(v)], field)

\* entities_map.values() in the iteration order given.
values(m, order) == [ i \in 1..Len(order) |-> m[order[i]] ]

\* Lines 162-172: the records list-all prints.
query_all(m, order) == sort_by(values(m, order), "id")

\* Lines 209-224: the records the unused report prints.
unused(m, order) ==
    sort_by(SelectSeq(values(m, order),
                      LAMBDA e : ~e.used /\ e.entity_type /= "Unknown"),
            "file_path")

\* Most records in the map.
MaxEntities == 2

ReportFiles == {"/r/libs/a.ts", "/r/libs/b.ts"}

ReportNames == {"X", "Y"}

\* A declared record, unused or used, or a placeholder.
ReportRecords(file, name) ==
    { Entity_new(name, "Class", file, <<>>),
      [Entity_new(name, "Class", file, <<>>) EXCEPT !.used = TRUE],
      [Entity_new(name, "Unknown", file, <<>>) EXCEPT !.used = TRUE] }

ReportMaps ==
    UNION { { m \in [ { generate_entity_id(q[1], q[2]) : q \in keys } ->
                      UNION { ReportRecords(q[1], q[2]) : q \in keys } ] :
                \A id \in DOMAIN m : m[id].id = id } :
            keys \in { ks \in SUBSET (ReportFiles \X ReportNames) :
                          Cardinality(ks) <= MaxEntities } }

ReportInit ==
    /\ root_path = "/r" /\ disk = {} /\ sources = <<>> /\ all_files = <<>>
    /\ parsed = <<>>
    /\ entities_map \in ReportMaps
    /\ pc = "done" /\ fi = 1 /\ k = 1 /\ result = NoResult
    /\ op = "report"
    /\ args \in Orderings(DOMAIN entities_map) \X Orderings(DOMAIN entities_map)
    /\ ret = <<>>

\* Two runs of the reports on the same map.
RunReports ==
    /\ op = "report" /\ ret = <<>>
    /\ ret' = << query_all(entities_map, args[1]), query_all(entities_map, args[2]),
                 unused(entities_map, args[1]), unused(entities_map, args[2]) >>
    /\ UNCHANGED <<scanVars, op, args>>

ReportNext == RunReports

ReportSpec == ReportInit /\ [][ReportNext]_vars

(***************************************************************************)
(* C18. For a fixed final map, list-all and the unused report print the    *)
(* same sequence of records on every run, whatever order the map yields    *)
(* its values in.                                                          *)
(***************************************************************************)
C18_DeterministicReports ==
    ret /= <<>> => ret[1] = ret[2] /\ ret[3] = ret[4]

\* The half of C18 that holds: list-all, sorted by identity.
C18_ListAllDeterministic == ret /= <<>> => ret[1] = ret[2]

(***************************************************************************)
(* git.rs: get_changed_files.  A repository is a commit graph: each commit *)
(* has a set of parents and a tree; a tree maps the paths it holds to the  *)
(* content of the blob at that path.  HEAD and the base reference each     *)
(* name a commit.  Entry modes are not part of a tree here: two entries    *)
(* differ when their blobs differ.                                         *)
(***************************************************************************)

\* Most commits in the repository.
MaxCommits == 3

Commits == 1 .. MaxCommits

\* Paths relative to the work directory, in the order a tree lists them.
GitPaths == <<"a.ts", "b.ts">>

\* Blob contents per path.
Blobs(path) == IF path = "a.ts" THEN {1, 2} ELSE {1}

\* The trees: every set of paths, every content for each.
Trees ==
    UNION { { t \in [ps -> {1, 2}] : \A q \in ps : t[q] \in Blobs(q) } :
            ps \in SUBSET { GitPaths[i] : i \in DOMAIN GitPaths } }

\* Parent sets: a commit has at most two parents, all created before it.
ParentSets(c) == { ps \in SUBSET (1 .. (c - 1)) : Cardinality(ps) <= 2 }

\* The commits reachable from c through the parent links ps, c included.
RECURSIVE ancestors_in(_, _)
ancestors_in(ps, c) == {c} \cup UNION { ancestors_in(ps, q) : q \in ps[c] }

\* The commit graphs in which every commit belongs to the history of the
\* last commit created or of one other commit.
Histories ==
    { ps \in [Commits -> SUBSET Commits] :
         /\ \A c \in Commits : ps[c] \in ParentSets(c)
         /\ \E c \in Commits :
                ancestors_in(ps, c) \cup ancestors_in(ps, MaxCommits) = Commits }

\* HEAD and the base name two commits whose histories cover the graph.
Repositories ==
    { r \in [ parents : Histories, tree : [Commits -> Trees],
              head : Commits, base : Commits ] :
         ancestors_in(r.parents, r.head) \cup ancestors_in(r.parents, r.base) = Commits }

\* Repository::workdir: the work directory, with its trailing separator.
workdir == "/repo/"

ancestors(repo, c) == ancestors_in(repo.parents, c)

\* The tip of the second commit taken for the merge-base.
merge_base_tip(repo, one, two) == {two}

\* Repository::merge_base: the best common ancestors of the two commits, the
\* common ancestors that are not an ancestor of another common ancestor.
\* The call returns one of them, or fails when there is none.
merge_base(repo, one, two) ==
    LET common == ancestors(repo, one) \cap ancestors(repo, two) IN
    { c \in common : \A d \in common \ {c} : c \notin ancestors(repo, d) }

\* The status of one path between two trees; "Unmodified" yields no delta.
delta_status(old_tree, new_tree, path) ==
    IF path \notin DOMAIN old_tree /\ path \notin DOMAIN new_tree THEN "Unmodified"
    ELSE IF path \notin DOMAIN old_tree THEN "Added"
    ELSE IF path \notin DOMAIN new_tree THEN "Deleted"
    ELSE IF old_tree[path] /= new_tree[path] THEN "Modified"
    ELSE "Unmodified"

\* Repository::diff_tree_to_tree with no rename detection: one delta per
\* path whose entries differ, in path order.  The side that lacks the file
\* has no path.
RECURSIVE diff_from(_, _, _)
diff_from(old_tree, new_tree, i) ==
    IF i > Len(GitPaths) THEN <<>>
    ELSE LET path == GitPaths[i]
             st   == delta_status(old_tree, new_tree, path)
         IN  (IF st = "Unmodified" THEN <<>>
              ELSE << [ status   |-> st,
                        old_file |-> IF st = "Added" THEN <<>> ELSE <<path>>,
                        new_file |-> IF st = "Deleted" THEN <<>> ELSE <<path>> ] >>)
             \o diff_from(old_tree, new_tree, i + 1)

diff_tree_to_tree(old_tree, new_tree) == diff_from(old_tree, new_tree, 1)

\* The match on delta.status() with the Deleted arm answering Modified.
change_type_of_flat(status) ==
    IF status \in {"Added", "Copied"} THEN <<"Added">>
    ELSE IF status \in {"Deleted", "Modified"} THEN <<"Modified">>
    ELSE IF status = "Renamed" THEN <<"Renamed">>
    ELSE <<>>

\* The match on delta.status(): the change kind, or nothing for a status
\* that is skipped.
change_type_of(status) ==
    IF status = "Added" THEN <<"Added">>
    ELSE IF status = "Deleted" THEN <<"Deleted">>
    ELSE IF status = "Modified" THEN <<"Modified">>
    ELSE IF status = "Renamed" THEN <<"Renamed">>
    ELSE IF status = "Copied" THEN <<"Added">>
    ELSE <<>>

ChangedFile_new(path, change_type) == [path |-> path, change_type |-> change_type]

\* The foreach callback: the record pushed for one delta, if any.
changed_file_of(delta) ==
    LET change_type == change_type_of(delta.status)
        file_path   == IF delta.status = "Deleted" THEN delta.old_file
                       ELSE delta.new_file
    IN  IF change_type = <<>> \/ file_path = <<>> THEN <<>>
        ELSE << ChangedFile_new(join(workdir, file_path[1]), change_type[1]) >>

RECURSIVE foreach(_)
foreach(diff) ==
    IF diff = <<>> THEN <<>>
    ELSE changed_file_of(Head(diff)) \o foreach(Tail(diff))

\* get_changed_files from the merge-base on: the list for merge-base mb.
changed_files(repo, mb) ==
    foreach(diff_tree_to_tree(repo.tree[mb], repo.tree[repo.head]))

GitInit ==
    /\ root_path = workdir /\ disk = {} /\ sources = <<>> /\ all_files = <<>>
    /\ parsed = <<>> /\ entities_map = <<>>
    /\ pc = "idle" /\ fi = 1 /\ k = 1 /\ result = NoResult
    /\ op = "get_changed_files"
    /\ args \in Repositories
    /\ ret = <<>>

\* get_changed_files returning Ok(changed_files).
GetChangedFiles ==
    /\ op = "get_changed_files" /\ ret = <<>>
    /\ \E mb \in merge_base(args, args.head, args.base) :
          ret' = << [ok |-> TRUE, files |-> changed_files(args, mb)] >>
    /\ UNCHANGED <<scanVars, op, args>>

\* get_changed_files returning Err: HEAD and the base share no history.
NoMergeBase ==
    /\ op = "get_changed_files" /\ ret = <<>>
    /\ merge_base(args, args.head, args.base) = {}
    /\ ret' = << [ok |-> FALSE, files |-> <<>>] >>
    /\ UNCHANGED <<scanVars, op, args>>

GitNext == GetChangedFiles \/ NoMergeBase

GitSpec == GitInit /\ [][GitNext]_vars

\* c is a common ancestor of HEAD and the base that no other common
\* ancestor descends from.
IsMergeBase(repo, c) ==
    LET common == ancestors(repo, repo.head) \cap ancestors(repo, repo.base) IN
    /\ c \in common
    /\ ~ \E d \in common \ {c} : c \in ancestors(repo, d)

\* The entry of a tree at a path: its blob, or 0 when the tree lacks the path.
EntryAt(t, path) == IF path \in DOMAIN t THEN t[path] ELSE 0

PathSet == { GitPaths[i] : i \in DOMAIN GitPaths }

\* The records returned for a work-directory path.
RecordsOf(files, path) ==
    { i \in DOMAIN files : files[i].path = workdir \o path }

ReturnedOk == ret /= <<>> /\ ret[1].ok

(***************************************************************************)
(* C19. get_changed_files returns exactly the files that differ between    *)
(* the tree of merge-base(HEAD, base) and the tree of HEAD: a file changed *)
(* only on the base branch after the divergence is never returned; every   *)
(* file added or changed on the current branch is returned once.           *)
(***************************************************************************)
C19_MergeBaseDiff ==
    ReturnedOk =>
        \E c \in Commits :
            /\ IsMergeBase(args, c)
            /\ \A i \in DOMAIN ret[1].files :
                  \E q \in PathSet : i \in RecordsOf(ret[1].files, q)
            /\ \A q \in PathSet :
                  LET at_mb   == EntryAt(args.tree[c], q)
                      at_head == EntryAt(args.tree[args.head], q)
                      at_base == EntryAt(args.tree[args.base], q)
                      n       == Cardinality(RecordsOf(ret[1].files, q))
                  IN  /\ (at_mb /= at_head) => n = 1
                      /\ (at_mb = at_head) => n = 0
                      /\ (at_base /= at_mb /\ at_head = at_mb) => n = 0

\* The branches diverged; since then the base changed one file and the
\* current branch another, and only the latter is returned.
C19_Witness ==
    /\ ReturnedOk
    /\ \E c \in Commits :
          /\ IsMergeBase(args, c) /\ c /= args.base /\ c /= args.head
          /\ EntryAt(args.tree[args.base], "a.ts") /= EntryAt(args.tree[c], "a.ts")
          /\ EntryAt(args.tree[args.head], "a.ts") = EntryAt(args.tree[c], "a.ts")
          /\ EntryAt(args.tree[args.head], "b.ts") /= EntryAt(args.tree[c], "b.ts")
          /\ Len(ret[1].files) = 1
          /\ ret[1].files[1].path = "/repo/b.ts"

(***************************************************************************)
(* C20. Each record carries the change kind of its file between the        *)
(* merge-base tree and the HEAD tree: Added for a file only in HEAD,       *)
(* Deleted for a file only in the merge-base, under its old path, Modified *)
(* for a file in both with different content; a file identical in both     *)
(* trees has no record.                                                    *)
(***************************************************************************)
C20_ChangeKinds ==
    ReturnedOk =>
        \E c \in Commits :
            /\ IsMergeBase(args, c)
            /\ \A q \in PathSet :
                  LET in_mb   == q \in DOMAIN args.tree[c]
                      in_head == q \in DOMAIN args.tree[args.head]
                      kinds   == { ret[1].files[i].change_type :
                                      i \in RecordsOf(ret[1].files, q) }
                  IN  /\ (in_head /\ ~in_mb) => kinds = {"Added"}
                      /\ (in_mb /\ ~in_head) => kinds = {"Deleted"}
                      /\ (in_mb /\ in_head /\ args.tree[c][q] /= args.tree[args.head][q])
                            => kinds = {"Modified"}
                      /\ (in_mb /\ in_head /\ args.tree[c][q] = args.tree[args.head][q])
                            => kinds = {}
                      /\ (~in_mb /\ ~in_head) => kinds = {}

\* One file deleted and one modified or added on the current branch.
C20_Witness ==
    /\ ReturnedOk
    /\ \E i, j \in DOMAIN ret[1].files :
          /\ ret[1].files[i].change_type = "Deleted"
          /\ ret[1].files[j].change_type \in {"Added", "Modified"}
          /\ ret[1].files[i].path /= ret[1].files[j].path

====
